---- MODULE Spec2Model ----
(***************************************************************************)
(* A model of bwrap_compose: the Composer (composer.py), the profile       *)
(* Loader with extends resolution (config.py), the Command Parser          *)
(* (parser.py), the Command Builder (builder.py) and the env-override      *)
(* check of the Conflict Detector (conflicts.py).                          *)
(*                                                                         *)
(* A profile is a Python dict.  It is modelled as a record with one field  *)
(* per key the Composer reads:                                             *)
(*   mounts : sequence of [host, container, mode] records                  *)
(*   env    : an insertion-ordered dict, a sequence of <<key, value>>      *)
(*   args   : sequence of tokens                                           *)
(*   run, tmpfs, dev, proc : [kind, val], kind "absent" (no such key),     *)
(*            "none" (key present, value None), "str" (val = <<s>>) or     *)
(*            "list" (val = the list)                                      *)
(* `profile.get(k) or []` reads an absent key, None and the empty value    *)
(* alike, so mounts, env and args model all three as the empty sequence.   *)
(***************************************************************************)
EXTENDS Integers, Sequences, FiniteSets, TLC

VARIABLES
    profiles,   \* the list handed to compose_profiles
    merged,     \* what compose_profiles returned for it
    prev,       \* the result of the composition before this one
    pc,         \* "start" | "composed"
    nest,       \* how the current list was made: "fresh", or the segment of
                \* the list before that was composed: "self" | "head" |
                \* "tail" | "mid"
    fs,         \* the profile files: path -> [top, profiles]
    search_dirs,\* load_profile's search_dirs argument
    root,       \* the path load_profile was called with
    stack,      \* load_profile's call stack, innermost frame last
    visited,    \* load_profile's _visited set
    outcome,    \* "idle" | "running" | "resolved" | "notfound" | "cycle"
    result,     \* the value of the outermost load_profile call
    ret,        \* the latest return of a load_profile call with extends
    config,     \* the profile handed to build_bwrap_command, or the
                \* profile parse_bwrap_command returned
    run_cmd,    \* build_bwrap_command's run_cmd argument
    cmd,        \* a command as its tokens: the one to parse, or the one built
    first_cmd,  \* the command that was parsed
    step,       \* "idle" | "config" | "tokens" | "built" | "parsed" |
                \* "rebuilt"
    conflicts,  \* the list detect_conflicts returned for profiles
    commands,   \* merge-commands' arguments, each command as its tokens
    check_conflicts, \* the --check-conflicts option: "none" when it is not
                \* given, else "warn" | "error" | "prompt"
    dry_run,    \* the --dry-run/--no-dry-run option
    confirm,    \* the user's answer to typer.confirm
    exit_code,  \* the exit code of the command line, -1 while it runs
    stdout,     \* the commands echoed, each as its tokens
    stderr,     \* the lines echoed with err=True
    vdata,      \* the value handed to validate_profile
    errors      \* the list validate_profile returned

vars == <<profiles, merged, prev, pc, nest,
          fs, search_dirs, root, stack, visited, outcome, result, ret,
          config, run_cmd, cmd, first_cmd, step, conflicts,
          commands, check_conflicts, dry_run, confirm, exit_code, stdout,
          stderr, vdata, errors>>

composeVars == <<profiles, merged, prev, pc, nest>>
loadVars == <<fs, search_dirs, root, stack, visited, outcome, result, ret>>
cmdVars == <<config, run_cmd, cmd, first_cmd, step>>
detectVars == <<conflicts>>
cliVars ==
    <<commands, check_conflicts, dry_run, confirm, exit_code, stdout, stderr>>
validateVars == <<vdata, errors>>

----------------------------------------------------------------------------
(* Bounds of the model *)

MaxProfiles == 2
MaxTokens == 4
MaxMounts == 2
MaxExtends == 3

----------------------------------------------------------------------------
(* composer.py: the flag tables *)

_ONE_ARG_FLAGS ==
    { "--unsetenv", "--chdir", "--tmpfs", "--dir", "--proc", "--dev",
      "--remount-ro", "--uid", "--gid", "--hostname", "--lock-file",
      "--file", "--bind-data", "--ro-bind-data", "--perms", "--size",
      "--chmod" }

_TWO_ARG_FLAGS ==
    { "--setenv", "--symlink",
      "--bind", "--bind-try", "--dev-bind", "--dev-bind-try",
      "--ro-bind", "--ro-bind-try" }

_NAMESPACE_FLAGS ==
    { "--unshare-user", "--unshare-user-try", "--unshare-ipc",
      "--unshare-pid", "--unshare-net", "--unshare-uts",
      "--unshare-cgroup", "--unshare-cgroup-try", "--unshare-all",
      "--share-net", "--die-with-parent", "--as-pid-1",
      "--new-session", "--clearenv" }

_DIR_FLAGS == { "--dir" }

_LATE_FLAGS == { "--chdir" }

\* sorted() on a list of namespace flags orders them as Python orders
\* strings; this is that order on the members of _NAMESPACE_FLAGS.
NamespaceOrder ==
    << "--as-pid-1", "--clearenv", "--die-with-parent", "--new-session",
       "--share-net", "--unshare-all", "--unshare-cgroup",
       "--unshare-cgroup-try", "--unshare-ipc", "--unshare-net",
       "--unshare-pid", "--unshare-user", "--unshare-user-try",
       "--unshare-uts" >>

----------------------------------------------------------------------------
(* Sequence helpers *)

InSeq(x, s) == \E i \in 1..Len(s) : s[i] = x

RECURSIVE Flatten(_)
Flatten(gs) == IF gs = <<>> THEN <<>> ELSE Head(gs) \o Flatten(Tail(gs))

\* list(dict.fromkeys(s)): s without the entries already seen earlier in it
RECURSIVE DedupInto(_, _)
DedupInto(acc, s) ==
    IF s = <<>> THEN acc
    ELSE DedupInto(IF InSeq(Head(s), acc) THEN acc ELSE Append(acc, Head(s)),
                   Tail(s))

NoDup(s) == \A i, j \in 1..Len(s) : s[i] = s[j] => i = j

Range(s) == { s[i] : i \in 1..Len(s) }

----------------------------------------------------------------------------
(* composer.py: _group_args *)

RECURSIVE GroupFrom(_, _)
GroupFrom(args, i) ==
    IF i > Len(args) THEN <<>>
    ELSE IF args[i] \in _TWO_ARG_FLAGS /\ i + 2 <= Len(args)
         THEN << <<args[i], args[i + 1], args[i + 2]>> >>
                  \o GroupFrom(args, i + 3)
    ELSE IF args[i] \in _ONE_ARG_FLAGS /\ i + 1 <= Len(args)
         THEN << <<args[i], args[i + 1]>> >> \o GroupFrom(args, i + 2)
    ELSE << <<args[i]>> >> \o GroupFrom(args, i + 1)

_group_args(args) == GroupFrom(args, 1)

----------------------------------------------------------------------------
(* composer.py: _organize_args *)

\* sorted(namespace)
SortedNamespace(ns) ==
    LET Pick(k) == SelectSeq(ns, LAMBDA t : t = NamespaceOrder[k])
        RECURSIVE Upto(_)
        Upto(k) == IF k = 0 THEN <<>> ELSE Upto(k - 1) \o Pick(k)
    IN  Upto(Len(NamespaceOrder))

\* The scan of _organize_args from index i with the four buckets b.
RECURSIVE OrganizeFrom(_, _, _)
OrganizeFrom(args, i, b) ==
    IF i > Len(args) THEN b
    ELSE LET tok == args[i] IN
      IF tok \in _NAMESPACE_FLAGS
      THEN OrganizeFrom(args, i + 1,
                        [b EXCEPT !.namespace = Append(@, tok)])
      ELSE IF tok \in _DIR_FLAGS /\ i + 1 <= Len(args)
      THEN OrganizeFrom(args, i + 2,
                        [b EXCEPT !.dirs = Append(@, <<tok, args[i + 1]>>)])
      ELSE IF tok \in _LATE_FLAGS /\ i + 1 <= Len(args)
      THEN OrganizeFrom(args, i + 2,
                        [b EXCEPT !.late = Append(@, <<tok, args[i + 1]>>)])
      ELSE IF tok \in _TWO_ARG_FLAGS /\ i + 2 <= Len(args)
      THEN OrganizeFrom(args, i + 3,
                        [b EXCEPT !.other =
                             @ \o <<tok, args[i + 1], args[i + 2]>>])
      ELSE IF tok \in _ONE_ARG_FLAGS /\ i + 1 <= Len(args)
      THEN OrganizeFrom(args, i + 2,
                        [b EXCEPT !.other = @ \o <<tok, args[i + 1]>>])
      ELSE OrganizeFrom(args, i + 1, [b EXCEPT !.other = Append(@, tok)])

OrganizeBuckets(args) ==
    OrganizeFrom(args, 1,
                 [namespace |-> <<>>, dirs |-> <<>>, late |-> <<>>,
                  other |-> <<>>])

_organize_args(args) ==
    LET b == OrganizeBuckets(args)
    IN  SortedNamespace(b.namespace) \o Flatten(b.dirs) \o b.other
            \o Flatten(b.late)

----------------------------------------------------------------------------
(* composer.py: compose_profiles *)

Absent == [kind |-> "absent", val |-> <<>>]
NoneVal == [kind |-> "none", val |-> <<>>]
StrVal(s) == [kind |-> "str", val |-> <<s>>]
ListVal(l) == [kind |-> "list", val |-> l]

\* A dict with no key the Composer reads.
EmptyProfile ==
    [mounts |-> <<>>, env |-> <<>>, args |-> <<>>, run |-> Absent,
     tmpfs |-> Absent, dev |-> Absent, proc |-> Absent]

\* The initial value of `merged`.
MergedInit ==
    [mounts |-> <<>>, env |-> <<>>, args |-> <<>>, run |-> NoneVal,
     tmpfs |-> ListVal(<<>>), dev |-> ListVal(<<>>), proc |-> ListVal(<<>>)]

\* Mutant of EnvSet: dict.setdefault, an existing key keeps its value.
EnvSetKeepFirst(env, kv) ==
    IF \E i \in 1..Len(env) : env[i][1] = kv[1] THEN env ELSE Append(env, kv)

\* dict.update for one key: an existing key keeps its position and takes the
\* new value, a new key is appended.
EnvSet(env, kv) ==
    IF \E i \in 1..Len(env) : env[i][1] = kv[1]
    THEN [i \in 1..Len(env) |-> IF env[i][1] = kv[1] THEN kv ELSE env[i]]
    ELSE Append(env, kv)

RECURSIVE EnvUpdate(_, _)
EnvUpdate(env, upd) ==
    IF upd = <<>> THEN env
    ELSE EnvUpdate(EnvSet(env, Head(upd)), Tail(upd))

\* Mutant of MergeMounts: an incoming mount is dropped when the accumulator
\* already mounts its container path, whatever the mode.
RECURSIVE MergeMountsByContainer(_, _)
MergeMountsByContainer(acc, ms) ==
    IF ms = <<>> THEN acc
    ELSE MergeMountsByContainer(
             IF \E i \in 1..Len(acc) : acc[i].container = Head(ms).container
             THEN acc ELSE Append(acc, Head(ms)),
             Tail(ms))

\* The loop over profile.get("mounts"): append what is not yet in merged.
MergeMounts(acc, ms) == DedupInto(acc, ms)

\* The tmpfs/dev/proc branch: `items` of lines 134-136.
SpecialItems(v) ==
    IF v.kind \in {"absent", "none"} THEN <<>> ELSE v.val

\* Mutant of MergeSpecial: the `item not in merged[key]` test is missing.
MergeSpecialNoTest(acc, v) ==
    IF v.kind \in {"absent", "none"} THEN acc
    ELSE ListVal(acc.val \o SpecialItems(v))

MergeSpecial(acc, v) ==
    IF v.kind \in {"absent", "none"} THEN acc
    ELSE ListVal(DedupInto(acc.val, SpecialItems(v)))

\* The groups of one profile that are not yet in seen_arg_groups, in order.
RECURSIVE NewGroups(_, _)
NewGroups(seen, gs) ==
    IF gs = <<>> THEN <<>>
    ELSE IF InSeq(Head(gs), seen) THEN NewGroups(seen, Tail(gs))
    ELSE <<Head(gs)>> \o NewGroups(Append(seen, Head(gs)), Tail(gs))

\* The `"run" in profile` branch.
MergeRun(acc, r) == IF r.kind # "absent" THEN r ELSE acc

\* One iteration of the loop over profile_dicts; st is
\* [m |-> merged, seen |-> seen_arg_groups].
MergeProfile(st, p) ==
    LET new == NewGroups(st.seen, _group_args(p.args))
    IN  [m |-> [mounts |-> MergeMounts(st.m.mounts, p.mounts),
                env    |-> EnvUpdate(st.m.env, p.env),
                args   |-> st.m.args \o Flatten(new),
                run    |-> MergeRun(st.m.run, p.run),
                tmpfs  |-> MergeSpecial(st.m.tmpfs, p.tmpfs),
                dev    |-> MergeSpecial(st.m.dev, p.dev),
                proc   |-> MergeSpecial(st.m.proc, p.proc)],
         seen |-> st.seen \o new]

RECURSIVE MergeAll(_, _)
MergeAll(st, ps) ==
    IF ps = <<>> THEN st ELSE MergeAll(MergeProfile(st, Head(ps)), Tail(ps))

compose_profiles(ps) ==
    LET st == MergeAll([m |-> MergedInit, seen |-> <<>>], ps)
    IN  [st.m EXCEPT !.args = _organize_args(st.m.args)]

----------------------------------------------------------------------------
(* The inputs of the model *)

SeqsUpTo(S, n) == UNION { [1..k -> S] : k \in 0..n }

\* Tokens the args of the modelled profiles are made of: two namespace
\* flags, the directory flag, the late flag, another one-value flag, a
\* two-value flag and two plain values.
Tokens ==
    { "--unshare-net", "--share-net", "--dir", "--chdir", "--tmpfs",
      "--bind", "/a", "/b" }

ArgsProfile(a) == [EmptyProfile EXCEPT !.args = a]

\* The ways to cut len tokens into n profiles: cut[k] is the number of
\* tokens in the first k profiles.
Cuts(len, n) ==
    { c \in [1..(n - 1) -> 0..len] : \A k \in 1..(n - 2) : c[k] <= c[k + 1] }

\* The list of n profiles holding only args whose args, laid end to end,
\* are the tokens of flat.
SplitArgs(flat, n, cut) ==
    [k \in 1..n |->
        ArgsProfile(SubSeq(flat,
                           (IF k = 1 THEN 0 ELSE cut[k - 1]) + 1,
                           IF k = n THEN Len(flat) ELSE cut[k]))]

Mounts ==
    { [host |-> "/a", container |-> "/a", mode |-> "ro"],
      [host |-> "/a", container |-> "/a", mode |-> "rw"],
      [host |-> "/b", container |-> "/b", mode |-> "rw"] }

\* Ordered dicts over the keys A and B.
Envs ==
    { <<>>, << <<"A", "1">> >>, << <<"A", "2">> >>, << <<"B", "1">> >>,
      << <<"A", "1">>, <<"B", "2">> >>, << <<"B", "1">>, <<"A", "2">> >> }

Runs == { StrVal("sh"), ListVal(<<"/bin/sh">>), ListVal(<<"/bin/echo", "x">>) }

Specials ==
    { NoneVal, StrVal("/t"), StrVal("/u"), ListVal(<<>>), ListVal(<<"/t">>),
      ListVal(<<"/t", "/u">>), ListVal(<<"/u", "/t", "/u">>) }

\* Profiles that set one of mounts, env, run, tmpfs, dev, proc.
FieldProfiles ==
    { [EmptyProfile EXCEPT !.mounts = m] : m \in SeqsUpTo(Mounts, MaxMounts) }
    \cup { [EmptyProfile EXCEPT !.env = e] : e \in Envs }
    \cup { [EmptyProfile EXCEPT !.run = r] : r \in Runs }
    \cup { [EmptyProfile EXCEPT !.tmpfs = v] : v \in Specials }
    \cup { [EmptyProfile EXCEPT !.dev = v] : v \in Specials }
    \cup { [EmptyProfile EXCEPT !.proc = v] : v \in Specials }

----------------------------------------------------------------------------
(* The Composer as a state machine *)

NoPath == [dir |-> "", name |-> "", ext |-> ""]

NoReturn == [child |-> EmptyProfile, parents |-> <<>>, out |-> EmptyProfile]

DetectIdle == conflicts = <<>>

CliIdle ==
    /\ commands = <<>>
    /\ check_conflicts = "none"
    /\ dry_run = TRUE
    /\ confirm = FALSE
    /\ exit_code = -1
    /\ stdout = <<>>
    /\ stderr = <<>>

ValidateIdle == vdata = EmptyProfile /\ errors = <<>>

CmdIdle ==
    /\ config = EmptyProfile
    /\ run_cmd = NoneVal
    /\ cmd = <<>>
    /\ first_cmd = <<>>
    /\ step = "idle"

LoadIdle ==
    /\ fs = <<>>
    /\ search_dirs = <<>>
    /\ root = NoPath
    /\ stack = <<>>
    /\ visited = {}
    /\ outcome = "idle"
    /\ result = EmptyProfile
    /\ ret = NoReturn

ComposeStart(ps) ==
    /\ profiles = ps
    /\ merged = MergedInit
    /\ prev = MergedInit
    /\ pc = "start"
    /\ nest = "fresh"

\* Every list of at most MaxProfiles profiles holding only args, with at
\* most MaxTokens tokens in all.
Init ==
    /\ \E flat \in SeqsUpTo(Tokens, MaxTokens) :
         \E n \in (IF flat = <<>> THEN 0 ELSE 1)..MaxProfiles :
           \E cut \in Cuts(Len(flat), n) :
             ComposeStart(SplitArgs(flat, n, cut))
    /\ LoadIdle
    /\ CmdIdle
    /\ DetectIdle
    /\ CliIdle
    /\ ValidateIdle

\* Every list of at most MaxProfiles profiles that each set one field.
FieldInit ==
    /\ \E n \in 0..MaxProfiles :
         \E ps \in [1..n -> FieldProfiles] : ComposeStart(ps)
    /\ LoadIdle
    /\ CmdIdle
    /\ DetectIdle
    /\ CliIdle
    /\ ValidateIdle

\* merged = compose_profiles(profile_dicts)
Compose ==
    /\ pc = "start"
    /\ merged' = compose_profiles(profiles)
    /\ pc' = "composed"
    /\ UNCHANGED <<profiles, prev, nest>>
    /\ UNCHANGED loadVars
    /\ UNCHANGED cmdVars
    /\ UNCHANGED detectVars
    /\ UNCHANGED cliVars
    /\ UNCHANGED validateVars

\* The segments of a list of n profiles that a caller may have composed on
\* its own before composing the list: profiles i..j.
Segments(n) ==
    IF n = 0 THEN { <<1, 0>> }
    ELSE { seg \in (1..n) \X (1..n) : seg[1] <= seg[2] }

NestKind(seg, n) ==
    IF seg[1] = 1 /\ seg[2] = n THEN "self"
    ELSE IF seg[1] = 1 THEN "head"
    ELSE IF seg[2] = n THEN "tail"
    ELSE "mid"

\* A composition result becomes a member of the next list to compose: the
\* profiles i..j of the list are replaced by their composition.  The whole
\* list gives compose([compose(ps)]); a head segment is load_profile's
\* compose([compose(parents), child]); a tail segment is a list whose later
\* profile was itself resolved through extends.
Nest ==
    /\ pc = "composed"
    /\ nest = "fresh"
    /\ \E seg \in Segments(Len(profiles)) :
           /\ profiles' =
                  SubSeq(profiles, 1, seg[1] - 1)
                  \o << compose_profiles(SubSeq(profiles, seg[1], seg[2])) >>
                  \o SubSeq(profiles, seg[2] + 1, Len(profiles))
           /\ nest' = NestKind(seg, Len(profiles))
    /\ prev' = merged
    /\ pc' = "start"
    /\ UNCHANGED merged
    /\ UNCHANGED loadVars
    /\ UNCHANGED cmdVars
    /\ UNCHANGED detectVars
    /\ UNCHANGED cliVars
    /\ UNCHANGED validateVars

Next == Compose \/ Nest

Spec == Init /\ [][Next]_vars

FieldSpec == FieldInit /\ [][Next]_vars

----------------------------------------------------------------------------
(* config.py: _resolve_extends *)

\* A path is a directory, a profile name and an extension; the literal file
\* name d / name has the empty extension.
PathOf(d, name, ext) == [dir |-> d, name |-> name, ext |-> ext]

Exists(path) == path \in DOMAIN fs

\* Mutant of Candidates: the literal file name is tried before the
\* extensions.
CandidatesLiteralFirst(name, dirs) ==
    Flatten([i \in 1..Len(dirs) |->
                << PathOf(dirs[i], name, ""), PathOf(dirs[i], name, ".yaml"),
                   PathOf(dirs[i], name, ".yml"), PathOf(dirs[i], name, ".json") >>])

\* The candidates in the order the two loops try them.
Candidates(name, dirs) ==
    Flatten([i \in 1..Len(dirs) |->
                << PathOf(dirs[i], name, ".yaml"), PathOf(dirs[i], name, ".yml"),
                   PathOf(dirs[i], name, ".json"), PathOf(dirs[i], name, "") >>])

\* The first existing candidate, or NoPath for None.
_resolve_extends(name, base_dir, sdirs) ==
    LET cs == Candidates(name, <<base_dir>> \o sdirs)
        hits == { i \in 1..Len(cs) : Exists(cs[i]) }
    IN  IF hits = {} THEN NoPath
        ELSE cs[CHOOSE i \in hits : \A j \in hits : i <= j]

----------------------------------------------------------------------------
(* config.py: load_profile *)

\* `if extends:` and the str -> [str] normalisation: the parent names.
ExtendsList(e) ==
    CASE e.kind = "str" -> IF e.val[1] = "" THEN <<>> ELSE <<e.val[1]>>
      [] e.kind = "list" -> e.val
      [] OTHER -> <<>>

\* Mutant of Revisited: the cycle test is missing.
RevisitedNever(path) == FALSE

\* `real in _visited`; Path.resolve() is the identity on the modelled paths.
Revisited(path) == path \in visited

\* A file holds a mapping: its key profiles (absent, or a mapping whose
\* values are listed in val) and, in top, its other keys.  A mapping of
\* profile keys is a profile record with the key extends.
_unwrap_profiles(data) ==
    IF data.profiles.kind = "map" /\ Len(data.profiles.val) = 1
    THEN data.profiles.val[1]
    ELSE data.top

\* Lines 54-57: the data read from the file at path.
Parsed(path) == _unwrap_profiles(fs[path])

\* Mutant of PopExtends: extends is read with get and stays in data.
GetExtends(data) == data

\* data after data.pop("extends", None).
PopExtends(data) == [data EXCEPT !.extends = Absent]

\* Lines 46-59 for a call that passes the cycle test: the frame of the call.
Frame(path) ==
    [path |-> path,
     data |-> PopExtends(Parsed(path)),
     extends |-> ExtendsList(Parsed(path).extends),
     idx |-> 1,
     parent_dicts |-> <<>>]

\* Lines 75-76: base = compose(parents); data = compose([base, data]).
Overlay(parent_dicts, data) ==
    compose_profiles(<<compose_profiles(parent_dicts), data>>)

Top == stack[Len(stack)]

\* The path the running call resolves its next parent name to.
NextParent ==
    _resolve_extends(Top.extends[Top.idx], Top.path.dir, search_dirs)

Raise(kind) ==
    /\ outcome' = kind
    /\ stack' = <<>>
    /\ UNCHANGED <<result, ret>>

\* load_profile(root) is called and the file cannot be read.
StartMissing ==
    /\ outcome = "idle"
    /\ ~Exists(root)
    /\ visited' = visited \cup {root}
    /\ Raise("notfound")
    /\ UNCHANGED <<fs, search_dirs, root>>
    /\ UNCHANGED composeVars
    /\ UNCHANGED cmdVars
    /\ UNCHANGED detectVars
    /\ UNCHANGED cliVars
    /\ UNCHANGED validateVars

\* load_profile(root) is called: lines 46-59.
Start ==
    /\ outcome = "idle"
    /\ Exists(root)
    /\ visited' = visited \cup {root}
    /\ stack' = <<Frame(root)>>
    /\ outcome' = "running"
    /\ UNCHANGED <<fs, search_dirs, root, result, ret>>
    /\ UNCHANGED composeVars
    /\ UNCHANGED cmdVars
    /\ UNCHANGED detectVars
    /\ UNCHANGED cliVars
    /\ UNCHANGED validateVars

\* Lines 64-69: the next parent name resolves to no file.
ParentNotFound ==
    /\ outcome = "running"
    /\ Top.idx <= Len(Top.extends)
    /\ NextParent = NoPath
    /\ Raise("notfound")
    /\ UNCHANGED <<fs, search_dirs, root, visited>>
    /\ UNCHANGED composeVars
    /\ UNCHANGED cmdVars
    /\ UNCHANGED detectVars
    /\ UNCHANGED cliVars
    /\ UNCHANGED validateVars

\* Lines 70-72, 49-51: the recursive call finds its path in _visited.
ParentRevisited ==
    /\ outcome = "running"
    /\ Top.idx <= Len(Top.extends)
    /\ NextParent # NoPath
    /\ Revisited(NextParent)
    /\ Raise("cycle")
    /\ UNCHANGED <<fs, search_dirs, root, visited>>
    /\ UNCHANGED composeVars
    /\ UNCHANGED cmdVars
    /\ UNCHANGED detectVars
    /\ UNCHANGED cliVars
    /\ UNCHANGED validateVars

\* Lines 70-72, 49-59: the recursive call is entered.
ParentCall ==
    /\ outcome = "running"
    /\ Top.idx <= Len(Top.extends)
    /\ NextParent # NoPath
    /\ ~Revisited(NextParent)
    /\ visited' = visited \cup {NextParent}
    /\ stack' = Append(stack, Frame(NextParent))
    /\ UNCHANGED <<fs, search_dirs, root, outcome, result, ret>>
    /\ UNCHANGED composeVars
    /\ UNCHANGED cmdVars
    /\ UNCHANGED detectVars
    /\ UNCHANGED cliVars
    /\ UNCHANGED validateVars

\* Lines 73-78: all parents are loaded; the call returns its data.
Return ==
    /\ outcome = "running"
    /\ Top.idx > Len(Top.extends)
    /\ LET out == IF Top.extends = <<>> THEN Top.data
                  ELSE Overlay(Top.parent_dicts, Top.data)
       IN  /\ ret' = IF Top.extends = <<>> THEN ret
                     ELSE [child |-> Top.data, parents |-> Top.parent_dicts,
                           out |-> out]
           /\ IF Len(stack) = 1
              THEN /\ result' = out
                   /\ outcome' = "resolved"
                   /\ stack' = <<>>
              ELSE /\ stack' =
                        [SubSeq(stack, 1, Len(stack) - 1)
                           EXCEPT ![Len(stack) - 1] =
                             [@ EXCEPT !.idx = @ + 1,
                                       !.parent_dicts = Append(@, out)]]
                   /\ UNCHANGED <<result, outcome>>
    /\ UNCHANGED <<fs, search_dirs, root, visited>>
    /\ UNCHANGED composeVars
    /\ UNCHANGED cmdVars
    /\ UNCHANGED detectVars
    /\ UNCHANGED cliVars
    /\ UNCHANGED validateVars

NextLoad ==
    \/ StartMissing
    \/ Start
    \/ ParentNotFound
    \/ ParentRevisited
    \/ ParentCall
    \/ Return

\* The profiles that have a file, in the order their extends are dealt
\* out, and a name no file has.
FileNames == << "A", "B", "C", "D" >>

Missing == "X"

ProfileDir == "d"

FilePath(name) == PathOf(ProfileDir, name, ".yaml")

\* What the file of profile x holds besides extends: its own env key and,
\* when rich, the env key K and a run command.
Body(x, rich) ==
    [EmptyProfile EXCEPT
        !.env = (IF rich THEN << <<"K", x>> >> ELSE <<>>) \o << <<x, x>> >>,
        !.run = IF rich THEN ListVal(<<x>>) ELSE Absent]

\* extends as it is written for the parent names l: left out, one name as
\* a string, several names as a list.
ExtendsValue(l) ==
    IF l = <<>> THEN Absent
    ELSE IF Len(l) = 1 THEN StrVal(l[1]) ELSE ListVal(l)

\* A profile mapping with the key extends.
WithExtends(body, e) ==
    [k \in DOMAIN body \cup {"extends"} |->
        IF k = "extends" THEN e ELSE body[k]]

\* The file of profile x with the parent names l.  A plain file holds the
\* profile keys at its top, and extends only when it has parents; a rich
\* file holds them inside a single-entry profiles mapping, with an extends
\* key that is an empty list when it has no parents.
FileOf(x, l, rich) ==
    IF rich
    THEN [top |-> WithExtends(EmptyProfile, Absent),
          profiles |->
              [kind |-> "map",
               val |-> << WithExtends(Body(x, TRUE),
                                      IF l = <<>> THEN ListVal(<<>>)
                                      ELSE ExtendsValue(l)) >>]]
    ELSE [top |-> WithExtends(Body(x, FALSE), ExtendsValue(l)),
          profiles |-> Absent]

\* The k-th of the n pieces flat is cut into.
Piece(flat, n, cut, k) ==
    SubSeq(flat, (IF k = 1 THEN 0 ELSE cut[k - 1]) + 1,
           IF k = n THEN Len(flat) ELSE cut[k])

ComposeIdle ==
    /\ profiles = <<>>
    /\ merged = MergedInit
    /\ prev = MergedInit
    /\ pc = "idle"
    /\ nest = "fresh"

\* The files of A..D exist and hold at most MaxExtends extends references
\* in all, to any of A..D or to the missing X; the files of one of the sets
\* richSets are rich.  load_profile is called on the file of A or on the
\* missing file.
LoadStart(richSets) ==
    /\ \E refs \in SeqsUpTo(Range(FileNames) \cup {Missing}, MaxExtends) :
         \E cut \in Cuts(Len(refs), Len(FileNames)) :
           \E rich \in richSets :
             fs = [path \in { FilePath(FileNames[k]) : k \in 1..Len(FileNames) } |->
                     LET k == CHOOSE k \in 1..Len(FileNames) :
                                  FileNames[k] = path.name
                     IN  FileOf(path.name, Piece(refs, Len(FileNames), cut, k),
                                path.name \in rich)]
    /\ search_dirs = <<>>
    /\ root \in { FilePath("A"), FilePath(Missing) }
    /\ stack = <<>>
    /\ visited = {}
    /\ outcome = "idle"
    /\ result = EmptyProfile
    /\ ret = NoReturn
    /\ ComposeIdle
    /\ CmdIdle
    /\ DetectIdle
    /\ CliIdle
    /\ ValidateIdle

LoadInit == LoadStart(SUBSET Range(FileNames))

LoadSpec == LoadInit /\ [][NextLoad]_vars

----------------------------------------------------------------------------
(* load_profile with files of one parent name in several directories *)

\* The extra search directories, the parent name and the most files the
\* parent name has.
ExtraDirs == { "e", "f" }

ParentName == "P"

MaxCandidates == 3

Exts == { ".yaml", ".yml", ".json", "" }

\* The files a parent name may resolve to.
CandidatePaths ==
    { PathOf(d, ParentName, x) : d \in {ProfileDir} \cup ExtraDirs, x \in Exts }

\* A file of the parent name: its env tells where it is; when loops, it
\* extends the profile that extends it.
CandidateFile(path, loops) ==
    [top |-> WithExtends(
                 [EmptyProfile EXCEPT
                     !.env = << <<"dir", path.dir>>, <<"ext", path.ext>> >>],
                 IF loops THEN StrVal("A") ELSE Absent),
     profiles |-> Absent]

\* The file of A extends the parent name; at most MaxCandidates files of
\* that name exist, in the directory of A and in the extra directories;
\* the search directories are any of the extra directories in any order.
\* load_profile is called on the file of A or on a missing file.
ResolveInit ==
    /\ \E S \in SUBSET CandidatePaths :
         /\ Cardinality(S) <= MaxCandidates
         /\ \E loops \in BOOLEAN :
              fs = [path \in S \cup {FilePath("A")} |->
                      IF path = FilePath("A")
                      THEN [top |-> WithExtends(Body("A", FALSE),
                                                StrVal(ParentName)),
                            profiles |-> Absent]
                      ELSE CandidateFile(path, loops)]
    /\ search_dirs \in { sd \in SeqsUpTo(ExtraDirs, Cardinality(ExtraDirs)) :
                           NoDup(sd) }
    /\ root \in { FilePath("A"), FilePath(Missing) }
    /\ stack = <<>>
    /\ visited = {}
    /\ outcome = "idle"
    /\ result = EmptyProfile
    /\ ret = NoReturn
    /\ ComposeIdle
    /\ CmdIdle
    /\ DetectIdle
    /\ CliIdle
    /\ ValidateIdle

ResolveSpec == ResolveInit /\ [][NextLoad]_vars

----------------------------------------------------------------------------
(* parser.py: the flag tables *)

_BIND_FLAGS ==
    { "--bind", "--bind-try", "--dev-bind", "--dev-bind-try",
      "--ro-bind", "--ro-bind-try" }

\* Mutant of Parser_TWO_ARG_FLAGS: --symlink is not in the table.
ParserTwoArgNoSymlink == { "--setenv" }

Parser_TWO_ARG_FLAGS == { "--setenv", "--symlink" }

Parser_ONE_ARG_FLAGS ==
    { "--unsetenv", "--chdir", "--tmpfs", "--dir", "--proc", "--dev",
      "--remount-ro", "--uid", "--gid", "--hostname", "--lock-file",
      "--file", "--bind-data", "--ro-bind-data", "--perms", "--size",
      "--chmod" }

_ZERO_ARG_FLAGS ==
    { "--unshare-user", "--unshare-user-try", "--unshare-ipc",
      "--unshare-pid", "--unshare-net", "--unshare-uts",
      "--unshare-cgroup", "--unshare-cgroup-try", "--unshare-all",
      "--share-net", "--die-with-parent", "--as-pid-1",
      "--new-session", "--clearenv" }

_RW_BIND_FLAGS == { "--bind", "--bind-try", "--dev-bind", "--dev-bind-try" }

_RO_BIND_FLAGS == { "--ro-bind", "--ro-bind-try" }

\* The leading tokens parse_bwrap_command skips.
LauncherNames == { "bwrap", "/usr/bin/bwrap" }

----------------------------------------------------------------------------
(* parser.py: parse_bwrap_command *)

\* A command is modelled as its tokens: cli.py joins the tokens of a built
\* command with shlex.quote and the parser splits with shlex.split, which
\* gives the tokens back.

\* Mutant of BindMode: only --ro-bind is read-only.
BindModeRoBindOnly(tok) == IF tok = "--ro-bind" THEN "ro" ELSE "rw"

\* mode = "ro" if tok in _RO_BIND_FLAGS else "rw"
BindMode(tok) == IF tok \in _RO_BIND_FLAGS THEN "ro" ELSE "rw"

\* Mutant of ScanEnds: the scan never ends at a terminator.
ScanEndsNever(tok) == FALSE

\* if tok == "--": the scan ends here.
ScanEnds(tok) == tok = "--"

\* The while loop from 1-based position i; acc holds mounts, env, args and
\* run.
RECURSIVE ParseFrom(_, _, _)
ParseFrom(tokens, i, acc) ==
    IF i > Len(tokens) THEN acc
    ELSE
      LET tok == tokens[i]
      IN  IF ScanEnds(tok)
          THEN [acc EXCEPT !.run = ListVal(SubSeq(tokens, i + 1, Len(tokens)))]
          ELSE IF tok \in _BIND_FLAGS /\ i + 2 <= Len(tokens)
          THEN ParseFrom(tokens, i + 3,
                   [acc EXCEPT !.mounts =
                       Append(@, [host |-> tokens[i + 1],
                                  container |-> tokens[i + 2],
                                  mode |-> BindMode(tok)])])
          ELSE IF tok = "--setenv" /\ i + 2 <= Len(tokens)
          THEN ParseFrom(tokens, i + 3,
                   [acc EXCEPT !.env =
                       EnvSet(@, <<tokens[i + 1], tokens[i + 2]>>)])
          ELSE IF tok \in Parser_TWO_ARG_FLAGS /\ i + 2 <= Len(tokens)
          THEN ParseFrom(tokens, i + 3,
                   [acc EXCEPT !.args =
                       @ \o <<tok, tokens[i + 1], tokens[i + 2]>>])
          ELSE IF tok \in Parser_ONE_ARG_FLAGS /\ i + 1 <= Len(tokens)
          THEN ParseFrom(tokens, i + 2,
                   [acc EXCEPT !.args = @ \o <<tok, tokens[i + 1]>>])
          ELSE IF tok \in _ZERO_ARG_FLAGS
          THEN ParseFrom(tokens, i + 1, [acc EXCEPT !.args = Append(@, tok)])
          ELSE ParseFrom(tokens, i + 1, [acc EXCEPT !.args = Append(@, tok)])

\* The result has the keys mounts, env and args, and run only when the scan
\* met a terminator.
parse_bwrap_command(tokens) ==
    LET toks == IF tokens # <<>> /\ tokens[1] \in LauncherNames
                THEN Tail(tokens) ELSE tokens
    IN  ParseFrom(toks, 1, EmptyProfile)

----------------------------------------------------------------------------
(* builder.py *)

_RO_MODES == { "ro", "readonly" }

Builder_NAMESPACE_FLAGS ==
    { "--unshare-user", "--unshare-user-try", "--unshare-ipc",
      "--unshare-pid", "--unshare-net", "--unshare-uts",
      "--unshare-cgroup", "--unshare-cgroup-try", "--unshare-all",
      "--share-net", "--die-with-parent", "--as-pid-1",
      "--new-session", "--clearenv" }

Builder_DIR_FLAGS == { "--dir" }

Builder_LATE_FLAGS == { "--chdir" }

Builder_ONE_ARG_FLAGS ==
    { "--unsetenv", "--chdir", "--tmpfs", "--dir", "--proc", "--dev",
      "--remount-ro", "--uid", "--gid", "--hostname", "--lock-file",
      "--file", "--bind-data", "--ro-bind-data", "--perms", "--size",
      "--chmod" }

_as_list(val) ==
    IF val.kind \in {"absent", "none"} THEN <<>> ELSE val.val

\* The paths of the model that are wrapped in a pair of single quotes, with
\* what stands between the quotes.
QuotedPaths == [p \in { "'$HOME'", "''" } |-> IF p = "''" THEN "" ELSE "$HOME"]

\* os.path.expanduser and os.path.expandvars on the paths of the model,
\* with the home directory /h; other paths hold nothing to expand.
Expansions == [p \in { "~", "$HOME" } |-> "/h"]

_expand_path(path) ==
    IF path \in DOMAIN QuotedPaths THEN QuotedPaths[path]
    ELSE IF path \in DOMAIN Expansions THEN Expansions[path]
    ELSE path

\* The while loop of _categorise_args from 1-based position i; b holds the
\* four lists.
RECURSIVE CategoriseFrom(_, _, _)
CategoriseFrom(args, i, b) ==
    IF i > Len(args) THEN b
    ELSE
      LET tok == args[i]
      IN  IF tok \in Builder_NAMESPACE_FLAGS
          THEN CategoriseFrom(args, i + 1,
                   [b EXCEPT !.namespace = Append(@, tok)])
          ELSE IF tok \in Builder_DIR_FLAGS /\ i + 1 <= Len(args)
          THEN CategoriseFrom(args, i + 2,
                   [b EXCEPT !.dirs = @ \o <<tok, args[i + 1]>>])
          ELSE IF tok \in Builder_LATE_FLAGS /\ i + 1 <= Len(args)
          THEN CategoriseFrom(args, i + 2,
                   [b EXCEPT !.late = @ \o <<tok, args[i + 1]>>])
          ELSE IF tok \in Builder_ONE_ARG_FLAGS /\ i + 1 <= Len(args)
          THEN CategoriseFrom(args, i + 2,
                   [b EXCEPT !.other = @ \o <<tok, args[i + 1]>>])
          ELSE CategoriseFrom(args, i + 1, [b EXCEPT !.other = Append(@, tok)])

_categorise_args(args) ==
    CategoriseFrom(args, 1,
        [namespace |-> <<>>, dirs |-> <<>>, late |-> <<>>, other |-> <<>>])

\* Mutant of ResolveRun: the run of the profile goes before the override.
ResolveRunProfileFirst(cfg, override) ==
    IF cfg.run.kind = "str" THEN <<"/bin/sh", "-lc", "exec " \o cfg.run.val[1]>>
    ELSE IF cfg.run.kind = "list" THEN cfg.run.val
    ELSE IF override.kind # "none" THEN override.val
    ELSE <<"/usr/bin/env", "uv">>

\* Lines 107-114: the command to run.
ResolveRun(cfg, override) ==
    IF override.kind # "none" THEN override.val
    ELSE IF cfg.run.kind = "str"
    THEN <<"/bin/sh", "-lc", "exec " \o cfg.run.val[1]>>
    ELSE IF cfg.run.kind = "list" THEN cfg.run.val
    ELSE <<"/usr/bin/env", "uv">>

\* str.lower on the modes of the model.
Lower(s) ==
    CASE s = "RO" -> "ro"
      [] s = "ReadOnly" -> "readonly"
      [] OTHER -> s

\* Mutant of MountMode: the mode is compared as it is written.
MountModeAsWritten(mount) ==
    IF "mode" \in DOMAIN mount THEN mount.mode ELSE "rw"

\* str(mount.get("mode", "rw")).lower()
MountMode(mount) ==
    IF "mode" \in DOMAIN mount THEN Lower(mount.mode) ELSE "rw"

\* One iteration of the loop over the mounts: the tokens it adds.
BindTokens(mount) ==
    LET host == _expand_path(mount.host)
        container == _expand_path(mount.container)
    IN  IF host = "" \/ container = "" THEN <<>>
        ELSE << IF MountMode(mount) \in _RO_MODES THEN "--ro-bind" ELSE "--bind",
                host, container >>

\* for path in _as_list(config.get(key)): cmd += [flag, path]
PathTokens(flag, val) ==
    Flatten([i \in 1..Len(_as_list(val)) |-> <<flag, _as_list(val)[i]>>])

\* Mutant of EnvTokens: the keys are emitted last first.
EnvTokensReversed(env) ==
    Flatten([i \in 1..Len(env) |->
                <<"--setenv", env[Len(env) + 1 - i][1], env[Len(env) + 1 - i][2]>>])

\* for key, value in env.items(): cmd += ["--setenv", key, str(value)];
\* the values of the model are strings.
EnvTokens(env) ==
    Flatten([i \in 1..Len(env) |-> <<"--setenv", env[i][1], env[i][2]>>])

build_bwrap_command(cfg, override) ==
    LET cat == _categorise_args(cfg.args)
    IN  <<"bwrap">>
        \o cat.namespace
        \o PathTokens("--tmpfs", cfg.tmpfs)
        \o cat.dirs
        \o Flatten([i \in 1..Len(cfg.mounts) |-> BindTokens(cfg.mounts[i])])
        \o PathTokens("--dev", cfg.dev)
        \o PathTokens("--proc", cfg.proc)
        \o EnvTokens(cfg.env)
        \o cat.other
        \o cat.late
        \o <<"--">> \o ResolveRun(cfg, override)

----------------------------------------------------------------------------
(* The Parser and the Builder as a state machine *)

\* The most pieces of a command handed to the parser.
MaxCmdPieces == 4

\* Tokens of the commands handed to the parser: the launcher name, the
\* terminator, three bind flags, the two other two-value flags, a
\* one-value flag, a zero-value flag and two plain tokens.
ParserTokens ==
    { "bwrap", "--", "--ro-bind", "--ro-bind-try", "--dev-bind", "--setenv",
      "--symlink", "--chdir", "--unshare-net", "/a", "K" }

\* The pieces the commands handed to the parser are made of: any one token,
\* or --setenv with the key K.
ParserPieces == { <<t>> : t \in ParserTokens } \cup { <<"--setenv", "K">> }

\* Mounts of the profiles handed to the builder: the modes ro and rw for
\* one container path, modes in other letter cases, no mode, no host, and
\* hosts to expand or wrapped in single quotes.
BuilderMounts ==
    { [host |-> "/a", container |-> "/a", mode |-> "ro"],
      [host |-> "/a", container |-> "/a", mode |-> "rw"],
      [host |-> "/b", container |-> "/b", mode |-> "ReadOnly"],
      [host |-> "~", container |-> "/b"],
      [host |-> "", container |-> "/c", mode |-> "rw"],
      [host |-> "'$HOME'", container |-> "/a", mode |-> "RO"],
      [host |-> "''", container |-> "/b", mode |-> "ro"] }

\* Args of the profiles handed to the builder.
BuilderArgs ==
    { <<>>,
      <<"--unshare-net">>,
      <<"--chdir", "/w", "--hostname", "h", "--dir", "/d", "--share-net">>,
      <<"--chdir">>,
      <<"--hostname", "--unshare-net">>,
      <<"--foo", "--dir", "/d">>,
      <<"--setenv", "A", "9">>,
      <<"--dir", "/d", "--chdir", "/w">> }

BuilderEnvs == { <<>>, << <<"B", "1">>, <<"A", "2">> >> }

BuilderRuns ==
    { Absent, NoneVal, StrVal("sh"), ListVal(<<"/bin/echo", "x">>) }

BuilderOverrides == { NoneVal, ListVal(<<"/bin/ls">>) }

\* tmpfs, dev and proc of the profiles handed to the builder.
BuilderSpecials ==
    { [tmpfs |-> Absent, dev |-> Absent, proc |-> Absent],
      [tmpfs |-> ListVal(<<"/t", "/u">>), dev |-> StrVal("/dev"),
       proc |-> ListVal(<<"/proc">>)],
      [tmpfs |-> StrVal("/t"), dev |-> NoneVal, proc |-> ListVal(<<>>)] }

\* build_bwrap_command is called with a profile and an override.
BuildInit ==
    /\ \E m \in SeqsUpTo(BuilderMounts, MaxMounts) :
         \E a \in BuilderArgs :
           \E e \in BuilderEnvs :
             \E r \in BuilderRuns :
               \E sp \in BuilderSpecials :
                 config = [mounts |-> m, env |-> e, args |-> a, run |-> r,
                           tmpfs |-> sp.tmpfs, dev |-> sp.dev,
                           proc |-> sp.proc]
    /\ run_cmd \in BuilderOverrides
    /\ cmd = <<>>
    /\ first_cmd = <<>>
    /\ step = "config"
    /\ ComposeIdle
    /\ LoadIdle
    /\ DetectIdle
    /\ CliIdle
    /\ ValidateIdle

\* parse_bwrap_command is called with a command of at most MaxCmdPieces
\* pieces.
ParseInit ==
    /\ \E ps \in SeqsUpTo(ParserPieces, MaxCmdPieces) : cmd = Flatten(ps)
    /\ config = EmptyProfile
    /\ run_cmd = NoneVal
    /\ first_cmd = <<>>
    /\ step = "tokens"
    /\ ComposeIdle
    /\ LoadIdle
    /\ DetectIdle
    /\ CliIdle
    /\ ValidateIdle

\* cmd = build_bwrap_command(config, run_cmd), for a profile given or for
\* the profile the parser returned.
Build ==
    /\ step \in {"config", "parsed"}
    /\ cmd' = build_bwrap_command(config, run_cmd)
    /\ step' = IF step = "config" THEN "built" ELSE "rebuilt"
    /\ UNCHANGED <<config, run_cmd, first_cmd>>
    /\ UNCHANGED composeVars
    /\ UNCHANGED loadVars
    /\ UNCHANGED detectVars
    /\ UNCHANGED cliVars
    /\ UNCHANGED validateVars

\* config = parse_bwrap_command(cmd), for a command given or for the
\* command the builder returned; the profile is then built with no override.
Parse ==
    /\ step \in {"tokens", "built"}
    /\ config' = parse_bwrap_command(cmd)
    /\ run_cmd' = NoneVal
    /\ first_cmd' = cmd
    /\ step' = "parsed"
    /\ UNCHANGED cmd
    /\ UNCHANGED composeVars
    /\ UNCHANGED loadVars
    /\ UNCHANGED detectVars
    /\ UNCHANGED cliVars
    /\ UNCHANGED validateVars

NextCmd == Build \/ Parse

BuildSpec == BuildInit /\ [][NextCmd]_vars

ParseSpec == ParseInit /\ [][NextCmd]_vars

----------------------------------------------------------------------------
(* conflicts.py: _check_env_overrides *)

\* The most profiles handed to the check.
MaxEnvProfiles == 3

\* The two loops, over the profiles and over the items of each env, as one
\* loop over the items in that order; st is [seen, conflicts].
RECURSIVE CheckItems(_, _)
CheckItems(items, st) ==
    IF items = <<>> THEN st
    ELSE
      LET k == Head(items)[1]
          v == Head(items)[2]
          known == \E i \in 1..Len(st.seen) : st.seen[i][1] = k
          was == st.seen[CHOOSE i \in 1..Len(st.seen) : st.seen[i][1] = k][2]
      IN  CheckItems(Tail(items),
              [seen |-> EnvSet(st.seen, <<k, v>>),
               conflicts |->
                   IF known /\ was # v
                   THEN Append(st.conflicts,
                               [kind |-> "env-override", key |-> k,
                                set_to |-> was, overridden_to |-> v,
                                severity |-> "warning"])
                   ELSE st.conflicts])

\* The env items of the profiles, in the order the loops visit them.
EnvItems(ps) == Flatten([i \in 1..Len(ps) |-> ps[i].env])

_check_env_overrides(ps) ==
    CheckItems(EnvItems(ps), [seen |-> <<>>, conflicts |-> <<>>]).conflicts

\* The check is called with at most MaxEnvProfiles profiles that hold an
\* env.
DetectInit ==
    /\ \E n \in 0..MaxEnvProfiles :
         \E es \in [1..n -> Envs] :
           profiles = [i \in 1..n |-> [EmptyProfile EXCEPT !.env = es[i]]]
    /\ merged = MergedInit
    /\ prev = MergedInit
    /\ pc = "check"
    /\ nest = "fresh"
    /\ conflicts = <<>>
    /\ LoadIdle
    /\ CmdIdle
    /\ CliIdle
    /\ ValidateIdle

----------------------------------------------------------------------------
(* conflicts.py: detect_conflicts *)

\* m.get("container", "")
ContainerOf(m) == IF "container" \in DOMAIN m THEN m.container ELSE ""

\* Mutant of _normalise_mode: only the spelling ro is read-only.
NormaliseModeRoOnly(mode) == IF Lower(mode) = "ro" THEN "ro" ELSE "rw"

_normalise_mode(mode) ==
    IF Lower(mode) \in {"ro", "readonly"} THEN "ro" ELSE "rw"

\* _normalise_mode(m.get("mode", "rw"))
ModeOf(m) == _normalise_mode(IF "mode" \in DOMAIN m THEN m.mode ELSE "rw")

\* Mutant of _quick_merge: only the last profile is merged.
QuickMergeLast(ps) ==
    IF ps = <<>> THEN [mounts |-> <<>>, env |-> <<>>, args |-> <<>>]
    ELSE [mounts |-> ps[Len(ps)].mounts, env |-> ps[Len(ps)].env,
          args |-> ps[Len(ps)].args]

_quick_merge(ps) ==
    LET RECURSIVE Env(_, _)
        Env(env, i) ==
            IF i > Len(ps) THEN env ELSE Env(EnvUpdate(env, ps[i].env), i + 1)
    IN  [mounts |-> Flatten([i \in 1..Len(ps) |-> ps[i].mounts]),
         env |-> Env(<<>>, 1),
         args |-> Flatten([i \in 1..Len(ps) |-> ps[i].args])]

\* The loop that fills path_modes, a dict in insertion order: a list of
\* [cp, modes].
RECURSIVE CollectModes(_, _)
CollectModes(ms, path_modes) ==
    IF ms = <<>> THEN path_modes
    ELSE
      LET cp == ContainerOf(Head(ms))
          mode == ModeOf(Head(ms))
      IN  CollectModes(Tail(ms),
              IF \E i \in 1..Len(path_modes) : path_modes[i].cp = cp
              THEN [i \in 1..Len(path_modes) |->
                       IF path_modes[i].cp = cp
                       THEN [cp |-> cp,
                             modes |-> path_modes[i].modes \cup {mode}]
                       ELSE path_modes[i]]
              ELSE Append(path_modes, [cp |-> cp, modes |-> {mode}]))

_check_mount_mode_conflicts(ps) ==
    LET path_modes ==
            CollectModes(Flatten([i \in 1..Len(ps) |-> ps[i].mounts]), <<>>)
    IN  Flatten([i \in 1..Len(path_modes) |->
            IF Cardinality(path_modes[i].modes) > 1
            THEN << [kind |-> "mount-mode", path |-> path_modes[i].cp,
                     severity |-> "warning"] >>
            ELSE <<>>])

\* PurePosixPath(p).parts for the container paths of the model: a trailing
\* slash is dropped, the empty path has no parts.
PurePosixPath(p) ==
    CASE p = "/" -> <<"/">>
      [] p \in {"/a", "/a/"} -> <<"/", "a">>
      [] p = "/a/b" -> <<"/", "a", "b">>
      [] p = "/ab" -> <<"/", "ab">>
      [] p = "/b" -> <<"/", "b">>
      [] p = "/c" -> <<"/", "c">>
      [] p = "/tmp" -> <<"/", "tmp">>
      [] OTHER -> <<>>

\* Mutant of _is_subpath: any deeper path is a sub-path.
IsSubpathDeeper(child, parent) == Len(parent) < Len(child)

\* child.relative_to(parent) does not raise: the parts of parent begin the
\* parts of child, and a rooted child is not relative to a path with no root.
_is_subpath(child, parent) ==
    /\ Len(parent) <= Len(child)
    /\ SubSeq(child, 1, Len(parent)) = parent
    /\ ~(parent = <<>> /\ child # <<>>)

\* The container paths of the mounts with the given normalised mode; a set,
\* read here in the order its members were first added.
PathsOfMode(ms, mode) ==
    DedupInto(<<>>, Flatten([i \in 1..Len(ms) |->
        IF ModeOf(ms[i]) = mode THEN << ContainerOf(ms[i]) >> ELSE <<>>]))

_check_ro_writable_subdir(m) ==
    LET ro_paths == PathsOfMode(m.mounts, "ro")
        rw_paths == PathsOfMode(m.mounts, "rw")
    IN  Flatten([i \in 1..Len(rw_paths) |->
            Flatten([j \in 1..Len(ro_paths) |->
                IF /\ PurePosixPath(rw_paths[i]) # PurePosixPath(ro_paths[j])
                   /\ _is_subpath(PurePosixPath(rw_paths[i]),
                                  PurePosixPath(ro_paths[j]))
                THEN << [kind |-> "ro-writable-subdir", rw |-> rw_paths[i],
                         ro |-> ro_paths[j], severity |-> "warning"] >>
                ELSE <<>>])])

_CONTRADICTING_NS_PAIRS == << <<"--unshare-net", "--share-net">> >>

_check_namespace_contradictions(m) ==
    LET args == Range(m.args)
    IN  Flatten([i \in 1..Len(_CONTRADICTING_NS_PAIRS) |->
            IF /\ _CONTRADICTING_NS_PAIRS[i][1] \in args
               /\ _CONTRADICTING_NS_PAIRS[i][2] \in args
            THEN << [kind |-> "ns-contradiction",
                     a |-> _CONTRADICTING_NS_PAIRS[i][1],
                     b |-> _CONTRADICTING_NS_PAIRS[i][2],
                     severity |-> "error"] >>
            ELSE <<>>])

\* `merged or _quick_merge(profiles)`: m is NoneVal when no merged profile
\* is given; a composed profile is never an empty dict.
MergedOr(m, ps) == IF "mounts" \in DOMAIN m THEN m ELSE _quick_merge(ps)

detect_conflicts(ps, m) ==
    _check_mount_mode_conflicts(ps)
    \o _check_ro_writable_subdir(MergedOr(m, ps))
    \o _check_env_overrides(ps)
    \o _check_namespace_contradictions(MergedOr(m, ps))

\* The container paths and the modes of the mounts handed to the detector.
DetectPaths == { "/", "/a", "/a/", "/a/b", "/ab" }

DetectModes == { "ro", "rw", "ReadOnly" }

\* Mounts with and without a mode, and one without a container path.
DetectMounts ==
    { [host |-> "/h", container |-> c, mode |-> mo] :
          c \in DetectPaths, mo \in DetectModes }
    \cup { [host |-> "/h", container |-> c] : c \in DetectPaths }
    \cup { [host |-> "/h", mode |-> mo] : mo \in DetectModes }

\* The most mounts, and the most args tokens, of the profiles handed to the
\* detector.
MaxDetectMounts == 3

MaxDetectTokens == 3

DetectTokens == { "--unshare-net", "--share-net", "--hostname", "--dir", "/a" }

\* The list of n profiles holding only mounts whose mounts, laid end to end,
\* are flat.
SplitMounts(flat, n, cut) ==
    [k \in 1..n |->
        [EmptyProfile EXCEPT !.mounts =
            SubSeq(flat, (IF k = 1 THEN 0 ELSE cut[k - 1]) + 1,
                   IF k = n THEN Len(flat) ELSE cut[k])]]

\* Profiles that hold mounts, env and args at once.
MixedProfiles ==
    { [EmptyProfile EXCEPT
          !.mounts = << [host |-> "/h", container |-> "/a", mode |-> "ro"] >>,
          !.env = << <<"A", "1">> >>,
          !.args = <<"--unshare-net", "--dir", "/a">>],
      [EmptyProfile EXCEPT
          !.mounts = << [host |-> "/h", container |-> "/a", mode |-> "rw"],
                        [host |-> "/h", container |-> "/a/b"] >>,
          !.env = << <<"A", "2">> >>,
          !.args = <<"--share-net", "--dir", "/a">>],
      [EmptyProfile EXCEPT
          !.mounts = << [host |-> "/h", container |-> "/a", mode |-> "ro"] >>,
          !.args = <<"--dir", "/a", "--unshare-net">>] }

DetectStart(ps) ==
    /\ profiles = ps
    /\ merged = MergedInit
    /\ prev = MergedInit
    /\ pc = "check"
    /\ nest = "fresh"
    /\ conflicts = <<>>
    /\ LoadIdle
    /\ CmdIdle
    /\ CliIdle
    /\ ValidateIdle

\* detect_conflicts is called with at most MaxProfiles profiles: profiles
\* holding only mounts, profiles holding only args, profiles holding only an
\* env, or profiles holding all three.
ConflictInit ==
    \/ \E flat \in SeqsUpTo(DetectMounts, MaxDetectMounts) :
         \E n \in (IF flat = <<>> THEN 0 ELSE 1)..MaxProfiles :
           \E cut \in Cuts(Len(flat), n) :
             DetectStart(SplitMounts(flat, n, cut))
    \/ \E flat \in SeqsUpTo(DetectTokens, MaxDetectTokens) :
         \E n \in 1..MaxProfiles :
           \E cut \in Cuts(Len(flat), n) :
             DetectStart(SplitArgs(flat, n, cut))
    \/ \E n \in 1..MaxProfiles :
         \E es \in [1..n -> Envs] :
           DetectStart([i \in 1..n |-> [EmptyProfile EXCEPT !.env = es[i]]])
    \/ \E n \in 1..MaxProfiles :
         \E ps \in [1..n -> MixedProfiles] : DetectStart(ps)

\* found = detect_conflicts(profiles), with no merged profile.
Detect ==
    /\ pc = "check"
    /\ conflicts' = detect_conflicts(profiles, NoneVal)
    /\ pc' = "checked"
    /\ UNCHANGED <<profiles, merged, prev, nest>>
    /\ UNCHANGED loadVars
    /\ UNCHANGED cmdVars
    /\ UNCHANGED cliVars
    /\ UNCHANGED validateVars

\* merged = compose_profiles(profiles)
\* found = detect_conflicts(profiles, merged)
DetectMerged ==
    /\ pc = "checked"
    /\ merged' = compose_profiles(profiles)
    /\ conflicts' = detect_conflicts(profiles, merged')
    /\ pc' = "rechecked"
    /\ UNCHANGED <<profiles, prev, nest>>
    /\ UNCHANGED loadVars
    /\ UNCHANGED cmdVars
    /\ UNCHANGED cliVars
    /\ UNCHANGED validateVars

NextDetect == Detect \/ DetectMerged

DetectSpec == DetectInit /\ [][NextDetect]_vars

ConflictSpec == ConflictInit /\ [][NextDetect]_vars

----------------------------------------------------------------------------
(* config.py: validate_profile *)

\* A value handed to validate_profile is a dict, kind "dict", or any other
\* value.  A dict is modelled by the seven keys the function reads, each
\* with its value (a key the dict lacks has the value Absent), and by keys,
\* the set of its other keys.  A dict value is DictVal, a number IntVal.
DictVal(d) == [kind |-> "dict", val |-> d]

IntVal == [kind |-> "int", val |-> <<>>]

valid_keys ==
    { "mounts", "env", "args", "run", "description", "extends",
      "tmpfs", "dev", "proc", "profiles" }

\* sorted() over the keys of the model that are not read by name.
SortedKeys == <<"bogus", "description", "zzz">>

\* data.get(key) is not None
NotNone(v) == v.kind \notin {"absent", "none"}

\* for i, m in enumerate(mounts): the messages of entries i.. (i from 1)
RECURSIVE MountErrors(_, _)
MountErrors(mounts, i) ==
    IF i > Len(mounts) THEN <<>>
    ELSE
      (IF mounts[i].kind # "dict"
       THEN << [msg |-> "mounts[i] must be a mapping", i |-> i - 1] >>
       ELSE
         (IF "host" \notin DOMAIN mounts[i].val
          THEN << [msg |-> "mounts[i] missing 'host'", i |-> i - 1] >>
          ELSE <<>>)
         \o (IF "container" \notin DOMAIN mounts[i].val
             THEN << [msg |-> "mounts[i] missing 'container'", i |-> i - 1] >>
             ELSE <<>>))
      \o MountErrors(mounts, i + 1)

\* The check of tmpfs, dev or proc.
PathsErrors(key, val) ==
    IF NotNone(val) /\ val.kind \notin {"str", "list"}
    THEN << [msg |-> "must be a string or list of paths", key |-> key] >>
    ELSE <<>>

\* Mutant of validate_profile: it returns at the first message.
ValidateFirstOnly(d) ==
    IF d.kind # "dict" THEN << [msg |-> "Profile must be a mapping"] >>
    ELSE IF d.keys \ valid_keys # {}
    THEN << [msg |-> "Unknown keys",
             keys |-> SelectSeq(SortedKeys,
                                LAMBDA k : k \in d.keys \ valid_keys)] >>
    ELSE IF NotNone(d.mounts) /\ d.mounts.kind # "list"
    THEN << [msg |-> "'mounts' must be a list"] >>
    ELSE IF NotNone(d.mounts) /\ MountErrors(d.mounts.val, 1) # <<>>
    THEN << Head(MountErrors(d.mounts.val, 1)) >>
    ELSE IF NotNone(d.env) /\ d.env.kind # "dict"
    THEN << [msg |-> "'env' must be a mapping"] >>
    ELSE IF NotNone(d.args) /\ d.args.kind # "list"
    THEN << [msg |-> "'args' must be a list"] >>
    ELSE IF NotNone(d.run) /\ d.run.kind \notin {"str", "list"}
    THEN << [msg |-> "'run' must be a string or list"] >>
    ELSE IF PathsErrors("tmpfs", d.tmpfs) # <<>> THEN PathsErrors("tmpfs", d.tmpfs)
    ELSE IF PathsErrors("dev", d.dev) # <<>> THEN PathsErrors("dev", d.dev)
    ELSE PathsErrors("proc", d.proc)

validate_profile(d) ==
    IF d.kind # "dict" THEN << [msg |-> "Profile must be a mapping"] >>
    ELSE
      LET unknown == d.keys \ valid_keys
      IN  (IF unknown # {}
           THEN << [msg |-> "Unknown keys",
                    keys |-> SelectSeq(SortedKeys, LAMBDA k : k \in unknown)] >>
           ELSE <<>>)
          \o (IF ~NotNone(d.mounts) THEN <<>>
              ELSE IF d.mounts.kind # "list"
              THEN << [msg |-> "'mounts' must be a list"] >>
              ELSE MountErrors(d.mounts.val, 1))
          \o (IF NotNone(d.env) /\ d.env.kind # "dict"
              THEN << [msg |-> "'env' must be a mapping"] >>
              ELSE <<>>)
          \o (IF NotNone(d.args) /\ d.args.kind # "list"
              THEN << [msg |-> "'args' must be a list"] >>
              ELSE <<>>)
          \o (IF NotNone(d.run) /\ d.run.kind \notin {"str", "list"}
              THEN << [msg |-> "'run' must be a string or list"] >>
              ELSE <<>>)
          \o PathsErrors("tmpfs", d.tmpfs)
          \o PathsErrors("dev", d.dev)
          \o PathsErrors("proc", d.proc)

\* The entries of the mounts lists handed to validate_profile: mappings with
\* both keys, with one, with none, and a value that is no mapping.
ValidateEntries ==
    { DictVal([host |-> "/a", container |-> "/a"]),
      DictVal([host |-> "/a"]),
      DictVal([container |-> "/a", mode |-> "ro"]),
      DictVal(<<>>),
      StrVal("/a") }

\* The most entries of a mounts list handed to validate_profile.
MaxValidateMounts == 2

ValidateMounts ==
    { Absent, NoneVal, StrVal("/a"), DictVal(<<>>) }
    \cup { ListVal(l) : l \in SeqsUpTo(ValidateEntries, MaxValidateMounts) }

\* validate_profile is called with a dict, or with a value that is none.
ValidateInit ==
    /\ \/ vdata \in { ListVal(<<>>), StrVal("x") }
       \/ \E keys \in SUBSET Range(SortedKeys) :
            \E mounts \in ValidateMounts :
              \E env \in { Absent, NoneVal, DictVal(<<>>), ListVal(<<>>) } :
                \E args \in { Absent, ListVal(<<"--dir", "/a">>), StrVal("--dir") } :
                  \E run \in { Absent, StrVal("sh"), ListVal(<<"sh">>), IntVal } :
                    \E tmpfs \in { Absent, StrVal("/t"), ListVal(<<"/t">>), IntVal } :
                      \E dev \in { Absent, DictVal(<<>>) } :
                        \E proc \in { NoneVal, IntVal } :
                          vdata = [kind |-> "dict", keys |-> keys,
                                   mounts |-> mounts, env |-> env,
                                   args |-> args, run |-> run,
                                   tmpfs |-> tmpfs, dev |-> dev,
                                   proc |-> proc]
    /\ errors = <<>>
    /\ profiles = <<>>
    /\ merged = MergedInit
    /\ prev = MergedInit
    /\ pc = "validate"
    /\ nest = "fresh"
    /\ LoadIdle
    /\ CmdIdle
    /\ DetectIdle
    /\ CliIdle

\* errors = validate_profile(data)
Validate ==
    /\ pc = "validate"
    /\ errors' = validate_profile(vdata)
    /\ pc' = "validated"
    /\ UNCHANGED <<vdata, profiles, merged, prev, nest>>
    /\ UNCHANGED loadVars
    /\ UNCHANGED cmdVars
    /\ UNCHANGED detectVars
    /\ UNCHANGED cliVars

NextValidate == Validate

ValidateSpec == ValidateInit /\ [][NextValidate]_vars

----------------------------------------------------------------------------
(* cli.py: combine and merge-commands *)

\* typer.echo(f"  {prefix} [{c.kind}]: {c.description}", err=True)
ConflictLine(c) ==
    [prefix |-> IF c.severity = "warning" THEN "WARNING" ELSE "ERROR",
     kind |-> c.kind]

AbortLine == [prefix |-> "", kind |-> "Aborting due to errors."]

TooFewLine ==
    [prefix |-> "", kind |-> "At least two bwrap commands are required."]

\* What typer.echo("") and typer.confirm write to stdout.
PromptLines == << <<>>, <<"Conflicts detected. Proceed anyway? [y/N]:">> >>

\* _handle_conflicts: the conflicts found, the value returned, and the lines
\* written; answer is what typer.confirm returns.
_handle_conflicts(profile_dicts, m, interactive, answer) ==
    LET found == detect_conflicts(profile_dicts, m)
        lines == [i \in 1..Len(found) |-> ConflictLine(found[i])]
        errs == SelectSeq(found, LAMBDA c : c.severity = "error")
    IN  IF found = <<>>
        THEN [found |-> found, proceed |-> TRUE, err |-> <<>>, out |-> <<>>]
        ELSE IF errs # <<>> /\ ~interactive
        THEN [found |-> found, proceed |-> FALSE,
              err |-> Append(lines, AbortLine), out |-> <<>>]
        ELSE IF interactive
        THEN [found |-> found, proceed |-> answer, err |-> lines,
              out |-> PromptLines]
        ELSE [found |-> found, proceed |-> TRUE, err |-> lines, out |-> <<>>]

\* What combine and merge_commands do with the profiles once they have
\* them: compose, handle the conflicts if --check-conflicts is given, build
\* and echo the command.
Emit(profile_dicts) ==
    LET m == compose_profiles(profile_dicts)
        h == IF check_conflicts = "none"
             THEN [found |-> <<>>, proceed |-> TRUE, err |-> <<>>,
                   out |-> <<>>]
             ELSE _handle_conflicts(profile_dicts, m,
                                    check_conflicts = "prompt", confirm)
        cmd_list == build_bwrap_command(m, NoneVal)
    IN  /\ merged' = m
        /\ conflicts' = h.found
        /\ stderr' = h.err
        /\ cmd' = IF h.proceed THEN cmd_list ELSE <<>>
        /\ stdout' = h.out \o (IF h.proceed /\ dry_run
                               THEN << cmd_list >> ELSE <<>>)
        /\ exit_code' = IF h.proceed THEN 0 ELSE 1

\* combine, once the profiles are loaded.
Combine ==
    /\ pc = "combine"
    /\ Emit(profiles)
    /\ pc' = "done"
    /\ UNCHANGED <<profiles, prev, nest>>
    /\ UNCHANGED loadVars
    /\ UNCHANGED <<config, run_cmd, first_cmd, step>>
    /\ UNCHANGED <<commands, check_conflicts, dry_run, confirm>>
    /\ UNCHANGED validateVars

\* merge_commands.
MergeCommands ==
    /\ pc = "merge"
    /\ IF Len(commands) < 2
       THEN /\ stderr' = << TooFewLine >>
            /\ exit_code' = 2
            /\ UNCHANGED <<profiles, merged, conflicts, cmd, stdout>>
       ELSE /\ profiles' =
                   [i \in 1..Len(commands) |-> parse_bwrap_command(commands[i])]
            /\ Emit(profiles')
    /\ pc' = "done"
    /\ UNCHANGED <<prev, nest>>
    /\ UNCHANGED loadVars
    /\ UNCHANGED <<config, run_cmd, first_cmd, step>>
    /\ UNCHANGED <<commands, check_conflicts, dry_run, confirm>>
    /\ UNCHANGED validateVars

\* The most args tokens of the profiles handed to combine, and the most
\* pieces of a command handed to merge-commands.
MaxCliTokens == 3

MaxCliPieces == 2

\* The profiles of the conflict tests: profiles with conflicts of every
\* kind among them, and one that differs from another only in a mount mode.
CliProfiles ==
    MixedProfiles
    \cup { [EmptyProfile EXCEPT
               !.mounts = << [host |-> "/h", container |-> "/a",
                              mode |-> "rw"] >>,
               !.run = ListVal(<<"/bin/echo">>)] }

CheckModes == { "none", "warn", "error", "prompt" }

\* The pieces the commands handed to merge-commands are made of.
CliPieces ==
    { <<"bwrap">>, <<"--tmpfs", "/t">>, <<"--bind", "/a", "/a">>,
      <<"--ro-bind", "/a", "/a">>, <<"--setenv", "A", "1">>,
      <<"--setenv", "A", "2">>, <<"--unshare-net">>, <<"--share-net">>,
      <<"--", "/bin/sh">> }

CliCommands == { Flatten(ps) : ps \in SeqsUpTo(CliPieces, MaxCliPieces) }

CliStart ==
    /\ merged = MergedInit
    /\ prev = MergedInit
    /\ nest = "fresh"
    /\ exit_code = -1
    /\ stdout = <<>>
    /\ stderr = <<>>
    /\ LoadIdle
    /\ CmdIdle
    /\ DetectIdle
    /\ ValidateIdle

\* combine is called with at most MaxProfiles profiles: profiles holding
\* only args and no --check-conflicts, or the profiles of the conflict
\* tests and every option.
CombineInit ==
    /\ \/ /\ \E flat \in SeqsUpTo(Tokens, MaxCliTokens) :
               \E n \in 1..MaxProfiles :
                 \E cut \in Cuts(Len(flat), n) :
                   profiles = SplitArgs(flat, n, cut)
          /\ check_conflicts = "none"
          /\ dry_run = TRUE
          /\ confirm = FALSE
       \/ /\ \E n \in 1..MaxProfiles : profiles \in [1..n -> CliProfiles]
          /\ check_conflicts \in CheckModes
          /\ dry_run \in BOOLEAN
          /\ confirm \in BOOLEAN
    /\ commands = <<>>
    /\ pc = "combine"
    /\ CliStart

\* merge-commands is called with one or two commands and every
\* --check-conflicts mode.
MergeInit ==
    /\ \E n \in 1..MaxProfiles : commands \in [1..n -> CliCommands]
    /\ check_conflicts \in CheckModes
    /\ dry_run = TRUE
    /\ confirm \in BOOLEAN
    /\ profiles = <<>>
    /\ pc = "merge"
    /\ CliStart

NextCombine == Combine

NextMerge == MergeCommands

CombineSpec == CombineInit /\ [][NextCombine]_vars

MergeSpec == MergeInit /\ [][NextMerge]_vars

----------------------------------------------------------------------------
(* What the claims speak of *)

\* s with every entry equal to an earlier entry removed.
FirstOccurrences(s) ==
    LET idx == { i \in 1..Len(s) : \A j \in 1..(i - 1) : s[j] # s[i] }
        Nth(k) == CHOOSE i \in idx : Cardinality({ j \in idx : j < i }) = k - 1
    IN  [k \in 1..Cardinality(idx) |-> s[Nth(k)]]

\* f(ps[1]) \o ... \o f(ps[n])
ConcatOver(ps, f(_)) == Flatten([i \in 1..Len(ps) |-> f(ps[i])])

MountsOf(p) == p.mounts
ArgGroupsOf(p) == _group_args(p.args)

EnvKeys(env) == { env[i][1] : i \in 1..Len(env) }
EnvGet(env, k) == env[CHOOSE i \in 1..Len(env) : env[i][1] = k][2]

\* A profile has a run command when its run is a string or a list.
HasRun(p) == p.run.kind \in {"str", "list"}

\* A string becomes a one-element sequence, an absent value the empty one.
NormaliseSpecial(v) ==
    CASE v.kind = "str" -> <<v.val[1]>>
      [] v.kind = "list" -> v.val
      [] OTHER -> <<>>

Composed == pc = "composed"

----------------------------------------------------------------------------
(* C4: run is last-defined-wins *)

\* C4: compose(ps).run is the run of the last profile of ps that has a run
\* command and is absent when none has one; a profile without a run command,
\* a composition result among them, never replaces an earlier profile's run.
RunLastDefinedWins ==
    Composed =>
        LET having == { i \in 1..Len(profiles) : HasRun(profiles[i]) }
        IN  IF having = {} THEN ~HasRun(merged)
            ELSE merged.run =
                     profiles[CHOOSE i \in having : \A j \in having : j <= i].run

----------------------------------------------------------------------------
(* C5: mount union *)

\* C5: compose(ps).mounts is the profiles' mount lists laid end to end with
\* every entry identical to an earlier one removed; no two entries of the
\* result are identical.
MountUnion ==
    Composed =>
        /\ merged.mounts = FirstOccurrences(ConcatOver(profiles, MountsOf))
        /\ NoDup(merged.mounts)

\* A duplicate was dropped and two mounts differing only in mode were kept.
MountUnionWitness ==
    /\ Composed
    /\ Len(merged.mounts) < Len(ConcatOver(profiles, MountsOf))
    /\ \E i, j \in 1..Len(merged.mounts) :
           /\ i < j
           /\ merged.mounts[i].container = merged.mounts[j].container
           /\ merged.mounts[i].mode # merged.mounts[j].mode

----------------------------------------------------------------------------
(* C6: env is last-writer-wins *)

\* C6: the keys of compose(ps).env are the keys of all the profiles' env,
\* each once, and a key's value is the one of the last profile defining it.
EnvLastWriterWins ==
    Composed =>
        /\ EnvKeys(merged.env) =
               UNION { EnvKeys(profiles[i].env) : i \in 1..Len(profiles) }
        /\ Cardinality(EnvKeys(merged.env)) = Len(merged.env)
        /\ \A k \in EnvKeys(merged.env) :
               LET def == { i \in 1..Len(profiles) :
                              k \in EnvKeys(profiles[i].env) }
                   last == CHOOSE i \in def : \A j \in def : j <= i
               IN  EnvGet(merged.env, k) = EnvGet(profiles[last].env, k)

\* Two profiles gave one key different values and another key came from
\* one profile only.
EnvLastWriterWinsWitness ==
    /\ Composed
    /\ Len(profiles) = 2
    /\ \E k \in EnvKeys(profiles[1].env) \cap EnvKeys(profiles[2].env) :
           EnvGet(profiles[1].env, k) # EnvGet(profiles[2].env, k)
    /\ EnvKeys(profiles[1].env) # EnvKeys(profiles[2].env)

----------------------------------------------------------------------------
(* C8: tmpfs, dev and proc are unions in first-seen order *)

SpecialUnionOf(v, f(_)) ==
    /\ v.kind = "list"
    /\ v.val = FirstOccurrences(ConcatOver(profiles, f))
    /\ NoDup(v.val)

\* C8: each of tmpfs, dev, proc of compose(ps) is the profiles' normalised
\* values laid end to end with every path already seen dropped.
SpecialMountUnion ==
    Composed =>
        /\ SpecialUnionOf(merged.tmpfs, LAMBDA p : NormaliseSpecial(p.tmpfs))
        /\ SpecialUnionOf(merged.dev, LAMBDA p : NormaliseSpecial(p.dev))
        /\ SpecialUnionOf(merged.proc, LAMBDA p : NormaliseSpecial(p.proc))

\* A string and a list were merged and a path seen before was dropped.
SpecialMountUnionWitness ==
    /\ Composed
    /\ Len(profiles) = 2
    /\ profiles[1].tmpfs.kind = "str"
    /\ profiles[2].tmpfs.kind = "list"
    /\ profiles[1].tmpfs.val[1] \in Range(profiles[2].tmpfs.val)
    /\ Len(merged.tmpfs.val) = 2

----------------------------------------------------------------------------
(* C1: composition is idempotent *)

\* C1: compose([compose(ps)]) equals compose(ps) on every field, whatever
\* token sequences the args of ps are.
Idempotent ==
    (Composed /\ nest = "self") => merged = prev

----------------------------------------------------------------------------
(* C2: no duplicate argument groups after composition *)

\* C2: the Argument Groups of compose(ps).args are pairwise different.
NoDuplicateGroups ==
    Composed => NoDup(_group_args(merged.args))

----------------------------------------------------------------------------
(* C3: canonical ordering of the composed args *)

\* The Argument Groups of the input profiles, each once, in first-seen order.
InputGroups == FirstOccurrences(ConcatOver(profiles, ArgGroupsOf))

IsNamespaceGroup(g) == Len(g) = 1 /\ g[1] \in _NAMESPACE_FLAGS
IsDirGroup(g) == Len(g) = 2 /\ g[1] \in _DIR_FLAGS
IsLateGroup(g) == Len(g) = 2 /\ g[1] \in _LATE_FLAGS
IsOtherGroup(g) == ~IsNamespaceGroup(g) /\ ~IsDirGroup(g) /\ ~IsLateGroup(g)

\* C3: compose(ps).args is the namespace flags sorted, then the --dir
\* groups, then the remaining groups, then the --chdir groups of the input
\* profiles, the last three in first-seen order.
CanonicalOrder ==
    Composed =>
        merged.args =
            SortedNamespace(Flatten(SelectSeq(InputGroups, IsNamespaceGroup)))
            \o Flatten(SelectSeq(InputGroups, IsDirGroup))
            \o Flatten(SelectSeq(InputGroups, IsOtherGroup))
            \o Flatten(SelectSeq(InputGroups, IsLateGroup))

----------------------------------------------------------------------------
(* C7: composition neither loses nor invents argument groups *)

\* C7: the set of Argument Groups of compose(ps).args is the union of the
\* sets of Argument Groups of the profiles of ps.
GroupsPreserved ==
    Composed =>
        Range(_group_args(merged.args)) =
            UNION { Range(_group_args(profiles[i].args)) :
                      i \in 1..Len(profiles) }

----------------------------------------------------------------------------
(* C9: inheritance precedence *)

\* The last of the profiles ps for which has(p) holds.
LastWith(ps, has(_)) ==
    ps[CHOOSE i \in 1..Len(ps) :
          /\ has(ps[i])
          /\ \A j \in (i + 1)..Len(ps) : ~has(ps[j])]

AnyWith(ps, has(_)) == \E i \in 1..Len(ps) : has(ps[i])

\* A load_profile call with extends has returned.
Inherited == Len(ret.parents) > 0

\* The env of what a call with extends returned: the child's keys and the
\* parents' keys, a key's value taken from the child if it defines the key
\* and else from the last listed parent that does.
EnvPrecedence ==
    /\ EnvKeys(ret.out.env) =
           EnvKeys(ret.child.env)
           \cup UNION { EnvKeys(ret.parents[i].env) :
                          i \in 1..Len(ret.parents) }
    /\ \A k \in EnvKeys(ret.out.env) :
           EnvGet(ret.out.env, k) =
               IF k \in EnvKeys(ret.child.env) THEN EnvGet(ret.child.env, k)
               ELSE EnvGet(LastWith(ret.parents,
                                    LAMBDA p : k \in EnvKeys(p.env)).env, k)

\* The run of what a call with extends returned: the child's if it has one,
\* else the run of the last listed parent that has one.
RunPrecedence ==
    IF HasRun(ret.child) THEN ret.out.run = ret.child.run
    ELSE IF AnyWith(ret.parents, HasRun)
         THEN ret.out.run = LastWith(ret.parents, HasRun).run
         ELSE ~HasRun(ret.out)

\* C9: load resolves a child with extends = [P1..Pn] by merging the parents
\* in listed order and overlaying the child: the child's env values and run
\* prevail, inherited env keys the child does not define are kept, and an
\* inherited run is kept when the child defines none.
InheritancePrecedence ==
    Inherited => (EnvPrecedence /\ RunPrecedence)

----------------------------------------------------------------------------
(* C10: extends resolution terminates and reports cycles *)

Final == { "resolved", "notfound", "cycle" }

StackPaths == { stack[i].path : i \in 1..Len(stack) }

\* The files the extends of the file at path name, as load_profile resolves
\* them.
ParentPaths(path) ==
    LET names == ExtendsList(Parsed(path).extends)
    IN  { _resolve_extends(names[i], path.dir, search_dirs) :
            i \in 1..Len(names) } \ { NoPath }

\* The files reached from the files of set S by n or fewer extends steps.
RECURSIVE ReachFrom(_, _)
ReachFrom(S, n) ==
    IF n = 0 THEN S
    ELSE ReachFrom(S \cup UNION { ParentPaths(q) : q \in S }, n - 1)

Ancestors(path) == ReachFrom(ParentPaths(path), Cardinality(DOMAIN fs))

\* The extends references reachable from the starting profile lead back to
\* a profile on the way.
ReachableCycle ==
    /\ Exists(root)
    /\ \E q \in ReachFrom({root}, Cardinality(DOMAIN fs)) : q \in Ancestors(q)

\* The recursion is never deeper than there are files: the calls in
\* progress are for different files.
LoadBounded ==
    /\ Len(stack) <= Cardinality(DOMAIN fs)
    /\ Cardinality(StackPaths) = Len(stack)
    /\ StackPaths \subseteq visited

\* A call for a profile that is being resolved ends load with a cycle
\* error; once load has ended its outcome stays.
CycleReported ==
    /\ (/\ outcome = "running"
        /\ Top.idx <= Len(Top.extends)
        /\ NextParent \in StackPaths) => outcome' = "cycle"
    /\ outcome \in Final => outcome' = outcome

\* The parents a call in progress has still to load, and its return.
Pending(frame) == Len(frame.extends) - frame.idx + 2

RECURSIVE PendingSum(_)
PendingSum(frames) ==
    IF frames = <<>> THEN 0 ELSE Pending(Head(frames)) + PendingSum(Tail(frames))

\* The most parents a file lists.
MaxParents ==
    LET lens == { Len(ExtendsList(Parsed(p).extends)) : p \in DOMAIN fs }
    IN  CHOOSE n \in lens : \A m \in lens : m <= n

\* A bound on the steps load_profile has left: every file not yet visited
\* may still be entered and load its parents.
Variant ==
    CASE outcome \in Final -> 0
      [] outcome = "idle" ->
             2 + (Cardinality(DOMAIN fs) + 1) * (MaxParents + 2)
      [] OTHER ->
             1 + Cardinality(DOMAIN fs \ visited) * (MaxParents + 2)
               + PendingSum(stack)

\* The guards of the steps of load_profile: one of them can be taken.
CanStep ==
    \/ outcome = "idle" /\ ~Exists(root)
    \/ outcome = "idle" /\ Exists(root)
    \/ /\ outcome = "running"
       /\ Len(stack) > 0
       /\ \/ Top.idx > Len(Top.extends)
          \/ /\ Top.idx <= Len(Top.extends)
             /\ \/ NextParent = NoPath
                \/ NextParent # NoPath /\ Revisited(NextParent)
                \/ NextParent # NoPath /\ ~Revisited(NextParent)

\* C10: load terminates with one outcome, a resolved profile, a not-found
\* error or a cycle error: until it has ended a step is possible, and every
\* step lowers the bound on the steps left.  A reference back to a profile
\* being resolved gives the cycle error, a file set with a reachable cycle
\* never resolves, and the recursion is never deeper than there are files.
LoadTerminates ==
    /\ [](/\ outcome \in Final \cup {"idle", "running"}
          /\ outcome \notin Final => CanStep
          /\ Variant >= 0
          /\ LoadBounded
          /\ ReachableCycle => outcome # "resolved")
    /\ [][Variant' < Variant /\ CycleReported]_vars

\* A extends B and B extends A: load ended with the cycle error.
LoadTerminatesWitness ==
    /\ outcome = "cycle"
    /\ root = FilePath("A")
    /\ ExtendsList(Parsed(FilePath("A")).extends) = <<"B">>
    /\ ExtendsList(Parsed(FilePath("B")).extends) = <<"A">>

----------------------------------------------------------------------------
(* C11: a cycle error means a real cycle *)

\* Every parent name of a file reached from the starting profile resolves.
AllResolve ==
    \A q \in ReachFrom({root}, Cardinality(DOMAIN fs)) :
        LET names == ExtendsList(Parsed(q).extends)
        IN  \A i \in 1..Len(names) :
                _resolve_extends(names[i], q.dir, search_dirs) # NoPath

\* C11: load ends with the cycle error only when some profile reached from
\* the loaded profile is its own ancestor, and every acyclic inheritance
\* graph in which all names resolve (a diamond, or one parent reached along
\* two branches, included) loads successfully.
CycleMeansCycle ==
    /\ outcome = "cycle" => ReachableCycle
    /\ (outcome \in Final /\ Exists(root) /\ AllResolve /\ ~ReachableCycle)
           => outcome = "resolved"

----------------------------------------------------------------------------
(* C13: a resolved profile never contains extends *)

HasKey(p, k) == k \in DOMAIN p /\ p[k] # Absent

\* C13: what a load_profile call returns has no extends key, whether the
\* file has an extends key or not, is wrapped in a single-entry profiles
\* mapping or not, and at every depth of the chain: the value load returns
\* and the values the recursive calls returned to the calls in progress.
ResolvedHasNoExtends ==
    /\ outcome = "resolved" => ~HasKey(result, "extends")
    /\ \A i \in 1..Len(stack) :
           \A j \in 1..Len(stack[i].parent_dicts) :
               ~HasKey(stack[i].parent_dicts[j], "extends")
    /\ ~HasKey(ret.out, "extends")

\* A, a plain file extending B, is resolved; B is wrapped in a profiles
\* mapping and its extends key is an empty list.
ResolvedHasNoExtendsWitness ==
    /\ outcome = "resolved"
    /\ root = FilePath("A")
    /\ fs[FilePath("A")].profiles = Absent
    /\ fs[FilePath("A")].top.extends = StrVal("B")
    /\ fs[FilePath("B")].profiles.kind = "map"
    /\ Parsed(FilePath("B")).extends = ListVal(<<>>)
    /\ HasKey(result, "env")

----------------------------------------------------------------------------
(* C12: the order in which a parent name is resolved *)

\* The directories searched for a parent of the starting profile.
SearchedDirs == <<root.dir>> \o search_dirs

\* The existing files of the parent name in the directories searched.
Found ==
    { p \in DOMAIN fs \cap CandidatePaths : InSeq(p.dir, SearchedDirs) }

\* The place of directory d in the search.
DirRank(d) == CHOOSE i \in 1..Len(SearchedDirs) : SearchedDirs[i] = d

\* The file of Found that is first: in the earliest directory, and there
\* the one whose extension has the least rank.
FirstFound(rank) ==
    CHOOSE p \in Found :
        \A q \in Found :
            \/ DirRank(p.dir) < DirRank(q.dir)
            \/ p.dir = q.dir /\ rank[p.ext] <= rank[q.ext]

\* The files of the parent name load_profile has entered.
Loaded == visited \cap CandidatePaths

\* The first existing candidate by rank is the one loaded, and with no
\* candidate load fails with not-found and returns nothing.
ResolvesBy(rank) ==
    /\ Loaded # {} => Loaded = { FirstFound(rank) }
    /\ (outcome \in Final /\ Exists(root)) =>
           /\ Found = {} <=> Loaded = {}
           /\ Found = {} => (outcome = "notfound" /\ result = EmptyProfile)
    /\ outcome = "resolved" =>
           /\ EnvGet(result.env, "dir") = FirstFound(rank).dir
           /\ EnvGet(result.env, "ext") = FirstFound(rank).ext

LiteralFirstRank == [x \in Exts |->
    CASE x = "" -> 1 [] x = ".yaml" -> 2 [] x = ".yml" -> 3 [] OTHER -> 4]

LiteralLastRank == [x \in Exts |->
    CASE x = ".yaml" -> 1 [] x = ".yml" -> 2 [] x = ".json" -> 3 [] OTHER -> 4]

\* C12: a parent name is looked up in the directory of the extending file
\* and then in each search directory in the configured order; within a
\* directory the literal name is tried first, then name.yaml, name.yml,
\* name.json; the first existing candidate is the one loaded, and with no
\* candidate load fails with a not-found error and returns no profile.
ResolutionOrder == ResolvesBy(LiteralFirstRank)

\* C12 as amended: within a directory name.yaml, name.yml, name.json are
\* tried in that order and the literal name last.
ResolutionOrderLiteralLast == ResolvesBy(LiteralLastRank)

\* The literal file and the .yml file of the parent name are both in the
\* second search directory and nowhere else that is searched; load is
\* resolved.
ResolutionOrderWitness ==
    /\ outcome = "resolved"
    /\ search_dirs = <<"f", "e">>
    /\ Found = { PathOf("e", ParentName, ""), PathOf("e", ParentName, ".yml") }
    /\ Loaded = { PathOf("e", ParentName, ".yml") }

----------------------------------------------------------------------------
(* C14: build, parse, build *)

\* s and t hold the same entries the same number of times.
SameBag(s, t) ==
    \A x \in Range(s) \cup Range(t) :
        Cardinality({ i \in 1..Len(s) : s[i] = x })
            = Cardinality({ i \in 1..Len(t) : t[i] = x })

\* The argument content of a command: its bind triples, its --setenv
\* assignments, its other argument groups and its run tokens.  Two
\* commands have the same content when the bind triples are the same in
\* the same order, the assignments are the same, the other groups are the
\* same up to their order, and the run tokens are the same.
SameContent(c1, c2) ==
    LET a == parse_bwrap_command(c1)
        b == parse_bwrap_command(c2)
    IN  /\ a.mounts = b.mounts
        /\ Range(a.env) = Range(b.env)
        /\ SameBag(_group_args(a.args), _group_args(b.args))
        /\ a.run = b.run

\* C14: for every profile, parsing the command built from it and building
\* again yields a command with the same argument content as the first
\* build: the same bind triples, --setenv assignments, other argument
\* groups (up to reordering) and the same run tokens after the separator.
RoundTrip == step = "rebuilt" => SameContent(first_cmd, cmd)

----------------------------------------------------------------------------
(* C15, C16: what the parser makes of a command *)

\* The tokens the parser scans: the command without a leading launcher name.
Scanned(c) == IF c # <<>> /\ c[1] \in LauncherNames THEN Tail(c) ELSE c

\* The groups of the Flag Grammar the scanned tokens fall into.
CmdGroups(c) == _group_args(Scanned(c))

\* The place of the first group that is the terminator, or one past the
\* last group.
TerminatorAt(gs) ==
    LET at == { k \in 1..Len(gs) : gs[k] = <<"--">> }
    IN  IF at = {} THEN Len(gs) + 1 ELSE CHOOSE k \in at : \A j \in at : k <= j

\* The groups before the terminator.
BeforeTerminator(c) ==
    SubSeq(CmdGroups(c), 1, TerminatorAt(CmdGroups(c)) - 1)

IsBindGroup(g) ==
    /\ Len(g) = 3
    /\ g[1] \in { "--bind", "--bind-try", "--dev-bind", "--dev-bind-try",
                  "--ro-bind", "--ro-bind-try" }

IsSetenvGroup(g) == Len(g) = 3 /\ g[1] = "--setenv"

IsArgsGroup(g) == ~IsBindGroup(g) /\ ~IsSetenvGroup(g)

\* The mounts entry of a bind group.
MountOf(g) ==
    [host |-> g[2], container |-> g[3],
     mode |-> IF g[1] \in {"--ro-bind", "--ro-bind-try"} THEN "ro" ELSE "rw"]

\* C15: each flag scanned before the terminator lands in one place.  A bind
\* variant followed by two tokens becomes one mounts entry, with mode ro
\* exactly for --ro-bind and --ro-bind-try, in scan order; --setenv
\* followed by two tokens sets env[key] = value, the last assignment of a
\* key winning; every other group, a flag with its values or a token
\* alone, is appended to args.
ParserClassification ==
    step = "parsed" =>
        LET gs == BeforeTerminator(first_cmd)
            binds == SelectSeq(gs, IsBindGroup)
            sets == SelectSeq(gs, IsSetenvGroup)
        IN  /\ config.mounts = [i \in 1..Len(binds) |-> MountOf(binds[i])]
            /\ EnvKeys(config.env) = { sets[i][2] : i \in 1..Len(sets) }
            /\ \A k \in EnvKeys(config.env) :
                   EnvGet(config.env, k) =
                       LastWith(sets, LAMBDA g : g[2] = k)[3]
            /\ config.args = Flatten(SelectSeq(gs, IsArgsGroup))

\* A parsed command that sets the key K twice: the later value is kept.
ParserClassificationWitness ==
    /\ step = "parsed"
    /\ first_cmd = <<"--setenv", "K", "/a", "--setenv", "K", "K">>
    /\ config.env = << <<"K", "K">> >>

\* The place of the first token -- in toks, or 0.
FirstTerminator(toks) ==
    LET at == { i \in 1..Len(toks) : toks[i] = "--" }
    IN  IF at = {} THEN 0 ELSE CHOOSE i \in at : \A j \in at : i <= j

\* mounts, env and args of the profile are those the tokens of prefix give.
SameUpTo(prefix, profile) ==
    LET q == ParseFrom(prefix, 1, EmptyProfile)
    IN  /\ profile.mounts = q.mounts
        /\ profile.env = q.env
        /\ profile.args = q.args

\* C16: for a token sequence that contains the terminator --, run is
\* exactly the tokens after the first -- and no token at or after it
\* contributes to mounts, env or args; for a token sequence without --
\* the result has no run key.
TerminatorFirst ==
    step = "parsed" =>
        LET toks == Scanned(first_cmd)
            t == FirstTerminator(toks)
        IN  IF t = 0 THEN config.run = Absent
            ELSE /\ config.run = ListVal(SubSeq(toks, t + 1, Len(toks)))
                 /\ SameUpTo(SubSeq(toks, 1, t - 1), config)

\* C16 as amended: the terminator is the first -- that is not taken as a
\* value of the flag before it.  With such a token run is exactly the
\* tokens after it and no token at or after it contributes to mounts, env
\* or args; without one the result has no run key.
TerminatorScanned ==
    step = "parsed" =>
        LET gs == CmdGroups(first_cmd)
            t == TerminatorAt(gs)
        IN  IF t > Len(gs) THEN config.run = Absent
            ELSE /\ config.run =
                        ListVal(Flatten(SubSeq(gs, t + 1, Len(gs))))
                 /\ SameUpTo(Flatten(SubSeq(gs, 1, t - 1)), config)

\* The first -- is the value of --chdir, the second ends the scan.
TerminatorScannedWitness ==
    /\ step = "parsed"
    /\ first_cmd = <<"--chdir", "--", "--", "/a">>
    /\ config.run = ListVal(<<"/a">>)
    /\ config.args = <<"--chdir", "--">>

----------------------------------------------------------------------------
(* C17, C18, C19: what the builder emits *)

\* The tokens of a built command after its separator; the args, paths, env
\* and run tokens of the model hold no -- of their own.
AfterSeparator(c) == SubSeq(c, FirstTerminator(c) + 1, Len(c))

\* The run command the claim names for the profile and override built.
ExpectedRun ==
    CASE run_cmd # NoneVal -> run_cmd.val
      [] run_cmd = NoneVal /\ config.run.kind = "str" ->
             <<"/bin/sh", "-lc", "exec " \o config.run.val[1]>>
      [] run_cmd = NoneVal /\ config.run.kind = "list" -> config.run.val
      [] OTHER -> <<"/usr/bin/env", "uv">>

\* C18: the tokens after the separator are the explicit override when one
\* is given, even if the profile defines run; otherwise profile.run, a
\* string s as [/bin/sh, -lc, "exec " + s] and a sequence verbatim;
\* otherwise, run absent or null, the fallback [/usr/bin/env, uv].
RunResolution ==
    step = "built" =>
        /\ FirstTerminator(cmd) > 0
        /\ AfterSeparator(cmd) = ExpectedRun

\* A profile whose run is a string is built with an override.
RunResolutionWitness ==
    /\ step = "built"
    /\ config.run = StrVal("sh")
    /\ run_cmd = ListVal(<<"/bin/ls">>)
    /\ AfterSeparator(cmd) = <<"/bin/ls">>

\* The positions of args that start a group: every position but the one
\* after a one-value flag that itself starts a group.
ArgHeads(args) ==
    LET IsHead[i \in 1..Len(args)] ==
            IF i = 1 THEN TRUE
            ELSE ~(IsHead[i - 1] /\ args[i - 1] \in _ONE_ARG_FLAGS)
    IN  { i \in 1..Len(args) : IsHead[i] }

\* The group that starts at position i: a one-value flag with its value,
\* or the token alone.
ArgGroupAt(args, i) ==
    IF args[i] \in _ONE_ARG_FLAGS /\ i < Len(args)
    THEN <<args[i], args[i + 1]>> ELSE <<args[i]>>

\* The tokens of the groups of args of one kind, in the order of args:
\* namespace flags, --dir with a value, --chdir with a value, the others.
ArgKind(g) ==
    IF g[1] \in _NAMESPACE_FLAGS THEN "namespace"
    ELSE IF g[1] = "--dir" /\ Len(g) = 2 THEN "dir"
    ELSE IF g[1] = "--chdir" /\ Len(g) = 2 THEN "late"
    ELSE "other"

ArgSection(args, kind) ==
    Flatten([i \in 1..Len(args) |->
                IF i \in ArgHeads(args) /\ ArgKind(ArgGroupAt(args, i)) = kind
                THEN ArgGroupAt(args, i) ELSE <<>>])

\* flag path, for every path of a tmpfs, dev or proc value.
PathSection(flag, val) ==
    LET paths == NormaliseSpecial(val)
    IN  Flatten([i \in 1..Len(paths) |-> <<flag, paths[i]>>])

\* --setenv key value for every key of env in insertion order.
EnvSection(env) ==
    Flatten([i \in 1..Len(env) |-> <<"--setenv">> \o env[i]])

\* What the built command starts with, up to the bind mounts, and what it
\* ends with, after them.
BeforeBinds ==
    <<"bwrap">> \o ArgSection(config.args, "namespace")
        \o PathSection("--tmpfs", config.tmpfs)
        \o ArgSection(config.args, "dir")

AfterBinds ==
    PathSection("--dev", config.dev) \o PathSection("--proc", config.proc)
        \o EnvSection(config.env)
        \o ArgSection(config.args, "other")
        \o ArgSection(config.args, "late")
        \o <<"--">> \o ExpectedRun

\* The tokens of the built command between the two.
BindSection == SubSeq(cmd, Len(BeforeBinds) + 1, Len(cmd) - Len(AfterBinds))

\* s is a sequence of bind triples.
BindTriples(s) ==
    /\ Len(s) % 3 = 0
    /\ \A i \in 1..Len(s) : i % 3 = 1 => s[i] \in {"--bind", "--ro-bind"}

ReadOnlySpellings == { "ro", "RO", "readonly", "ReadOnly" }

ExpectedFlag(mount) ==
    IF "mode" \in DOMAIN mount /\ mount.mode \in ReadOnlySpellings
    THEN "--ro-bind" ELSE "--bind"

HasBoth(mount) == mount.host # "" /\ mount.container # ""

HasBothExpanded(mount) ==
    _expand_path(mount.host) # "" /\ _expand_path(mount.container) # ""

\* C19: the bind triples of the built command correspond one to one, in
\* the same order, to the mounts of the profile that have a non-empty host
\* and a non-empty container; each is --ro-bind when its mode is ro or
\* readonly in any letter case and --bind otherwise; mounts of one
\* container path with different modes are both emitted, in the order of
\* the profile.
BindRendering ==
    step = "built" =>
        LET kept == SelectSeq(config.mounts, HasBoth)
        IN  /\ Len(BindSection) = 3 * Len(kept)
            /\ \A k \in 1..Len(kept) :
                   BindSection[3 * k - 2] = ExpectedFlag(kept[k])

\* C19 as amended: the mounts rendered are those whose host and container
\* are non-empty after path expansion, each with its expanded host and
\* container.
BindRenderingExpanded ==
    step = "built" =>
        LET kept == SelectSeq(config.mounts, HasBothExpanded)
        IN  BindSection =
                Flatten([k \in 1..Len(kept) |->
                            << ExpectedFlag(kept[k]),
                               _expand_path(kept[k].host),
                               _expand_path(kept[k].container) >>])

\* One container path is mounted read-write and then read-only: both are
\* emitted in that order.
BindRenderingWitness ==
    /\ step = "built"
    /\ config.mounts =
           << [host |-> "/a", container |-> "/a", mode |-> "rw"],
              [host |-> "/a", container |-> "/a", mode |-> "ro"] >>
    /\ BindSection = <<"--bind", "/a", "/a", "--ro-bind", "/a", "/a">>

----------------------------------------------------------------------------
(* C20: env-override detection *)

\* The first value seen for key k in the items.
FirstValue(items, k) ==
    items[CHOOSE i \in 1..Len(items) :
              /\ items[i][1] = k
              /\ \A j \in 1..(i - 1) : items[j][1] # k][2]

\* C20: scanning the profiles in order, an env-override warning is emitted
\* for a profile's definition of key k exactly when an earlier profile
\* defined k and the first value seen for k differs from this profile's
\* value; a re-declaration identical to the first value is no conflict, so
\* A=1, A=2, A=1 across three profiles yields exactly one conflict.
EnvOverrideFirstValue ==
    pc = "checked" =>
        LET items == EnvItems(profiles)
            expected ==
                Flatten([i \in 1..Len(items) |->
                    IF /\ \E j \in 1..(i - 1) : items[j][1] = items[i][1]
                       /\ FirstValue(items, items[i][1]) # items[i][2]
                    THEN << items[i] >> ELSE <<>>])
        IN  /\ [i \in 1..Len(conflicts) |->
                   <<conflicts[i].key, conflicts[i].overridden_to>>] = expected
            /\ \A i \in 1..Len(conflicts) :
                   /\ conflicts[i].kind = "env-override"
                   /\ conflicts[i].severity = "warning"

----------------------------------------------------------------------------
(* C21: mount-mode detection *)

\* detect_conflicts has returned.
Detected == pc \in {"checked", "rechecked"}

\* The mounts of the profiles, in profile order.
AllMounts == Flatten([i \in 1..Len(profiles) |-> profiles[i].mounts])

\* The conflicts of one kind, in the order they were reported.
OfKind(k) == SelectSeq(conflicts, LAMBDA c : c.kind = k)

\* A mount is read-only when its mode is spelt ro or readonly; with any
\* other mode, or none, it is read-write.
ReadOnlyMount(m) == "mode" \in DOMAIN m /\ m.mode \in ReadOnlySpellings

\* The container path of a mount; a mount that names none mounts "".
MountedAt(m) == IF "container" \in DOMAIN m THEN m.container ELSE ""

MountedPaths == { MountedAt(AllMounts[i]) : i \in 1..Len(AllMounts) }

\* Whether the mounts of a container path are read-only: {TRUE, FALSE} when
\* the path is mounted both ways.
ModesAt(path) ==
    { ReadOnlyMount(AllMounts[i]) :
          i \in { j \in 1..Len(AllMounts) : MountedAt(AllMounts[j]) = path } }

\* C21: for every list of profiles, detect emits exactly one mount-mode
\* warning for each distinct container path that is mounted across the
\* profiles with both normalised modes (ro/readonly is ro, anything else and
\* a missing mode is rw), and none for a container path mounted with a
\* single normalised mode, however many times it is mounted.
MountModeDetection ==
    Detected =>
        LET found == OfKind("mount-mode")
        IN  /\ \A i \in 1..Len(found) :
                   /\ found[i].path \in MountedPaths
                   /\ found[i].severity = "warning"
            /\ \A path \in MountedPaths :
                   Cardinality({ i \in 1..Len(found) : found[i].path = path })
                       = IF ModesAt(path) = {TRUE, FALSE} THEN 1 ELSE 0

\* /a is mounted read-only and then with no mode, /ab twice read-only in two
\* spellings: one warning, for /a.
MountModeDetectionWitness ==
    /\ pc = "checked"
    /\ AllMounts =
           << [host |-> "/h", container |-> "/a", mode |-> "ro"],
              [host |-> "/h", container |-> "/a"],
              [host |-> "/h", container |-> "/a", mode |-> "ReadOnly"] >>
    /\ Len(profiles) = 2
    /\ conflicts =
           << [kind |-> "mount-mode", path |-> "/a", severity |-> "warning"] >>

----------------------------------------------------------------------------
(* C22: ro-writable-subdir detection *)

\* The pairs <<p, q>> of container paths of the model with p a strict
\* descendant of q in the file system; /a/ names the directory /a.
StrictlyUnder ==
    { <<"/a", "/">>, <<"/a/", "/">>, <<"/a/b", "/">>, <<"/ab", "/">>,
      <<"/a/b", "/a">>, <<"/a/b", "/a/">> }

ReadOnlyPaths ==
    { MountedAt(AllMounts[i]) :
          i \in { j \in 1..Len(AllMounts) : ReadOnlyMount(AllMounts[j]) } }

ReadWritePaths ==
    { MountedAt(AllMounts[i]) :
          i \in { j \in 1..Len(AllMounts) : ~ReadOnlyMount(AllMounts[j]) } }

\* C22: over the merged mount set, a ro-writable-subdir warning is emitted
\* for a read-write container path exactly when it is a strict descendant
\* of (and not equal to) some read-only container path; sibling paths,
\* equal paths, and a read-only path nested under a read-write one produce
\* no such conflict.
RoWritableSubdir ==
    Detected =>
        LET found == OfKind("ro-writable-subdir")
        IN  /\ \A i \in 1..Len(found) :
                   /\ found[i].rw \in ReadWritePaths
                   /\ found[i].ro \in ReadOnlyPaths
                   /\ <<found[i].rw, found[i].ro>> \in StrictlyUnder
                   /\ found[i].severity = "warning"
            /\ \A p \in ReadWritePaths :
                   (\E i \in 1..Len(found) : found[i].rw = p)
                       <=> (\E q \in ReadOnlyPaths : <<p, q>> \in StrictlyUnder)

\* /a is read-only; /a/b is read-write under it, /a/ is the same directory
\* mounted read-write and /ab is a sibling: one warning, for /a/b.
RoWritableSubdirWitness ==
    /\ pc = "rechecked"
    /\ ReadOnlyPaths = {"/a"}
    /\ ReadWritePaths = {"/a/b", "/a/"}
    /\ conflicts =
           << [kind |-> "ro-writable-subdir", rw |-> "/a/b", ro |-> "/a",
               severity |-> "warning"] >>

----------------------------------------------------------------------------
(* C23: namespace contradiction and severity *)

\* The args the namespace check reads: the concatenation of the profiles'
\* args when no merged profile was given, the merged args otherwise.
CheckedArgs ==
    IF pc = "rechecked" THEN merged.args
    ELSE Flatten([i \in 1..Len(profiles) |-> profiles[i].args])

\* The tokens that stand as flags in args: the head of each group.
FlagsIn(args) ==
    { _group_args(args)[i][1] : i \in 1..Len(_group_args(args)) }

\* C23: detect emits exactly one ns-contradiction conflict when the merged
\* args contain both --unshare-net and --share-net as flags and none
\* otherwise; in every result of detect, a conflict has severity error if
\* and only if its kind is ns-contradiction, and every other kind has
\* severity warning.
NsContradiction ==
    Detected =>
        /\ Len(OfKind("ns-contradiction"))
               = IF {"--unshare-net", "--share-net"} \subseteq FlagsIn(CheckedArgs)
                 THEN 1 ELSE 0
        /\ \A i \in 1..Len(conflicts) :
               /\ conflicts[i].severity \in {"warning", "error"}
               /\ conflicts[i].severity = "error"
                      <=> conflicts[i].kind = "ns-contradiction"

----------------------------------------------------------------------------
(* C29: the detector's result does not depend on the merge it is given *)

\* The args of the profiles laid end to end, as the quick merge holds them.
ConcatArgs == Flatten([i \in 1..Len(profiles) |-> profiles[i].args])

\* C29: for every list of profiles ps, detect(ps) with no merged profile,
\* which uses the detector's quick merge, returns the same conflicts as
\* detect(ps, compose(ps)), and neither call changes ps or the merged
\* profile.
DetectorMergeIndependent ==
    [][/\ pc = "check" => (profiles' = profiles /\ merged' = merged)
       /\ pc = "checked" =>
              /\ conflicts' = conflicts
              /\ profiles' = profiles
              /\ merged' = compose_profiles(profiles)]_vars

\* Two profiles with a conflict of each kind; the composed args are not the
\* concatenation the quick merge holds.
DetectorMergeIndependentWitness ==
    /\ pc = "rechecked"
    /\ Len(profiles) = 2
    /\ merged.args # ConcatArgs
    /\ { conflicts[i].kind : i \in 1..Len(conflicts) } =
           { "mount-mode", "ro-writable-subdir", "env-override",
             "ns-contradiction" }

----------------------------------------------------------------------------
(* C24: validation reports every violation *)

Validated == pc = "validated"

\* The top-level keys of the profile source format.
KnownKeys ==
    { "mounts", "env", "args", "run", "tmpfs", "dev", "proc", "extends",
      "description", "profiles" }

\* A key is set when the mapping has it with a value other than null.
IsSet(v) == v.kind \notin {"absent", "none"}

\* The entries of mounts, when mounts is a sequence.
Entries == IF vdata.mounts.kind = "list" THEN vdata.mounts.val ELSE <<>>

EntryLacks(i, key) ==
    Entries[i].kind = "dict" /\ key \notin DOMAIN Entries[i].val

\* The rules of the schema that a mapping violates, each mounts entry
\* counted for each thing wrong with it.
Violations ==
    (IF vdata.keys \ KnownKeys # {} THEN { <<"keys">> } ELSE {})
    \cup (IF IsSet(vdata.mounts) /\ vdata.mounts.kind # "list"
          THEN { <<"mounts">> } ELSE {})
    \cup { <<"entry", i>> : i \in { j \in 1..Len(Entries) :
                                        Entries[j].kind # "dict" } }
    \cup { <<"host", i>> : i \in { j \in 1..Len(Entries) :
                                       EntryLacks(j, "host") } }
    \cup { <<"container", i>> : i \in { j \in 1..Len(Entries) :
                                            EntryLacks(j, "container") } }
    \cup (IF IsSet(vdata.env) /\ vdata.env.kind # "dict"
          THEN { <<"env">> } ELSE {})
    \cup (IF IsSet(vdata.args) /\ vdata.args.kind # "list"
          THEN { <<"args">> } ELSE {})
    \cup (IF IsSet(vdata.run) /\ vdata.run.kind \notin {"str", "list"}
          THEN { <<"run">> } ELSE {})
    \cup { <<"paths", k>> : k \in { key \in {"tmpfs", "dev", "proc"} :
                 LET v == CASE key = "tmpfs" -> vdata.tmpfs
                            [] key = "dev" -> vdata.dev
                            [] OTHER -> vdata.proc
                 IN  IsSet(v) /\ v.kind \notin {"str", "list"} } }

\* The message that reports a violation.
Reports(e, v) ==
    CASE v[1] = "keys" ->
             /\ e.msg = "Unknown keys"
             /\ Range(e.keys) = vdata.keys \ KnownKeys
      [] v[1] = "mounts" -> e.msg = "'mounts' must be a list"
      [] v[1] = "entry" ->
             e.msg = "mounts[i] must be a mapping" /\ e.i = v[2] - 1
      [] v[1] = "host" ->
             e.msg = "mounts[i] missing 'host'" /\ e.i = v[2] - 1
      [] v[1] = "container" ->
             e.msg = "mounts[i] missing 'container'" /\ e.i = v[2] - 1
      [] v[1] = "env" -> e.msg = "'env' must be a mapping"
      [] v[1] = "args" -> e.msg = "'args' must be a list"
      [] v[1] = "run" -> e.msg = "'run' must be a string or list"
      [] OTHER ->
             e.msg = "must be a string or list of paths" /\ e.key = v[2]

----------------------------------------------------------------------------
(* C25: the conflict-checking modes of the command line *)

\* A command of the command line has run to its end with profiles to
\* compose.
Done == pc = "done" /\ exit_code # 2

\* The command was built and, under --dry-run, echoed.
Emitted == cmd # <<>> /\ (dry_run => InSeq(cmd, stdout))

\* No command was built or echoed.
Blocked == cmd = <<>> /\ \A i \in 1..Len(stdout) : stdout[i] \in Range(PromptLines)

\* Every conflict found was written to stderr.
Printed ==
    \A i \in 1..Len(conflicts) :
        \E j \in 1..Len(stderr) : stderr[j].kind = conflicts[i].kind

\* C25: with --check-conflicts=warn the detected conflicts are printed and
\* the command is still emitted with exit code 0; with
\* --check-conflicts=error the run aborts with exit code 1 when conflicts
\* are detected; with --check-conflicts=prompt the outcome follows the
\* user's answer; without the option no conflict ever blocks emission.  The
\* detector never blocks composition.
ConflictModes ==
    Done =>
        /\ merged = compose_profiles(profiles)
        /\ check_conflicts = "none" => (exit_code = 0 /\ Emitted)
        /\ check_conflicts = "warn" => (exit_code = 0 /\ Emitted /\ Printed)
        /\ check_conflicts = "error" =>
               IF conflicts # <<>> THEN exit_code = 1 /\ Blocked
               ELSE exit_code = 0 /\ Emitted
        /\ check_conflicts = "prompt" =>
               IF conflicts # <<>> /\ ~confirm THEN exit_code = 1 /\ Blocked
               ELSE exit_code = 0 /\ Emitted

----------------------------------------------------------------------------
(* C27: the Builder and the Composer categorise args alike *)

OnlyArgs(p) == p = ArgsProfile(p.args)

\* The tokens of a built command between the launcher name and the
\* separator.
BeforeSeparator(c) == SubSeq(c, 2, FirstTerminator(c) - 1)

\* C27: for a profile p holding only args, the tokens the Builder emits
\* between the launcher name and the separator for compose([p]) are exactly
\* compose([p]).args, token for token: the Builder's split into namespace,
\* --dir, other and late tokens uses the flag arities of the Composer's
\* grouping and organisation.
BuilderKeepsComposedArgs ==
    (Done /\ exit_code = 0 /\ Len(profiles) = 1 /\ OnlyArgs(profiles[1])) =>
        BeforeSeparator(cmd) = merged.args

----------------------------------------------------------------------------
(* C30: tmpfs before bind mounts *)

\* C30: in every command produced by build, the merge-commands path
\* included, where --tmpfs arrives as an args group, every --tmpfs flag
\* precedes every --bind and --ro-bind flag, so a tmpfs that preceded a bind
\* mount in the original command is never moved after it.
TmpfsBeforeBinds ==
    (Done /\ exit_code = 0) =>
        \A i, j \in 1..(FirstTerminator(cmd) - 1) :
            (cmd[i] = "--tmpfs" /\ cmd[j] \in {"--bind", "--ro-bind"})
                => i < j

----------------------------------------------------------------------------
(* C26: the Parser groups tokens as the Composer does *)

\* The Parser's flag tables give every flag the arity the Composer's give
\* it.
SameFlagArities ==
    /\ _BIND_FLAGS \cup Parser_TWO_ARG_FLAGS = _TWO_ARG_FLAGS
    /\ Parser_ONE_ARG_FLAGS = _ONE_ARG_FLAGS
    /\ (_BIND_FLAGS \cup Parser_TWO_ARG_FLAGS) \cap Parser_ONE_ARG_FLAGS = {}

\* What one group of the Composer's grouping adds to a profile: a bind
\* group a mounts entry, a --setenv group an env assignment, any other
\* group its tokens to args.
AddGroup(p, g) ==
    IF IsBindGroup(g) THEN [p EXCEPT !.mounts = Append(@, MountOf(g))]
    ELSE IF IsSetenvGroup(g)
    THEN [p EXCEPT !.env =
             IF \E i \in 1..Len(@) : @[i][1] = g[2]
             THEN [i \in 1..Len(@) |->
                      IF @[i][1] = g[2] THEN <<g[2], g[3]>> ELSE @[i]]
             ELSE Append(@, <<g[2], g[3]>>)]
    ELSE [p EXCEPT !.args = @ \o g]

RECURSIVE AddGroups(_, _)
AddGroups(p, gs) ==
    IF gs = <<>> THEN p ELSE AddGroups(AddGroup(p, Head(gs)), Tail(gs))

\* C26: for every token sequence that contains no --, the Parser consumes
\* the tokens it scans in exactly the groups the Composer's grouping
\* produces, with the same arity for every flag and the same degradation to
\* arity 0 when fewer tokens than the arity remain, so its mounts, env
\* assignments and args, read in scan order, are the Composer's groups of
\* the sequence.
ParserGroupsAsComposer ==
    (step = "parsed" /\ ~InSeq("--", first_cmd)) =>
        /\ SameFlagArities
        /\ config = AddGroups(EmptyProfile, CmdGroups(first_cmd))

\* --symlink takes a bind flag and a path as its two values, and --setenv
\* is left with no value: all four tokens are args and nothing is mounted.
ParserGroupsAsComposerWitness ==
    /\ step = "parsed"
    /\ first_cmd = <<"--symlink", "--ro-bind", "/a", "--setenv">>
    /\ config = [EmptyProfile EXCEPT !.args = first_cmd]

----------------------------------------------------------------------------
(* C28: nested composition equals flat composition *)

\* C28: for every list of parent profiles and every child profile,
\* compose([compose(parents), child]) equals compose(parents ++ [child]) on
\* every field, so resolving extends gives the same profile as composing
\* the ancestors and the child as one flat list.
NestedEqualsFlat ==
    (Composed /\ nest = "head") => merged = prev

====
